---- MODULE Spec2Model ----
(***************************************************************************)
(* Model of the schema-mapping transformation engine                       *)
(* (TransformationService in src/src/types/index.ts), of the mapping       *)
(* repository (StorageService in src/src/services/storageService.ts) and   *)
(* of field matching (MappingService in                                    *)
(* src/src/services/mappingService.ts).                                    *)
(*                                                                         *)
(* JavaScript strings are sequences of one-character strings, so that      *)
(* path.split("."), parseFloat, String(v), split/trim/join are computed    *)
(* character by character.  Objects and arrays live in a heap of cells and *)
(* are held by reference, as in the runtime: a value written to the        *)
(* transformed payload without conversion is the very object of the source *)
(* payload.                                                                *)
(*                                                                         *)
(* Not modelled: property names found on Object.prototype / on primitive   *)
(* wrappers ("constructor", "length", "__proto__", ...), array index       *)
(* segments in paths, the date / date-time format conversions, -0 and      *)
(* Infinity.  The menus below use none of them.                            *)
(***************************************************************************)
EXTENDS Integers, Sequences, FiniteSets, TLC

VARIABLES
    heap,            \* the object heap: sequence of cells, address = index
    payload,         \* sourcePayload: reference to the root object
    mapping,         \* the SchemaMapping passed to transformPayload
    pc,              \* "idle" | "loop" | "done"
    i,               \* index of the next fieldMapping of the for-of loop
    errors,          \* const errors: TransformationError[]
    warnings,        \* const warnings: string[]
    unmappedFields,  \* const unmappedFields: string[]
    transformedPayload, \* const transformedPayload = {} (reference)
    outcome,         \* which exit each processed fieldMapping took (observer)
    result,          \* the PayloadTransformResult of the last finished call
    heap0,           \* the heap as it was when the first call started (observer)
    results,         \* results of the finished calls, materialised (observer)
    callsLeft,       \* how many calls the caller still makes
    validation,      \* result of validateTransformedPayload, or Undefined
    \* StorageService (src/src/services/storageService.ts)
    disk,            \* the storage file: missing, unreadable, or its text
    stores,          \* the objects StorageService.storage has referred to
    storage,         \* StorageService.storage: a reference or a primitive
    initialized,     \* StorageService.initialized
    fileSystemWritable, \* StorageService.fileSystemWritable
    procs,           \* the repository calls in flight, one per slot
    maxInFlight,     \* how many calls the callers let overlap
    opsLeft,         \* how many calls the callers still make
    now,             \* the clock read by new Date()
    reads,           \* how many times fs.readFile was started (observer)
    writes,          \* how many times fs.writeFile was started (observer)
    nDone,           \* how many calls have returned or thrown (observer)
    last,            \* the call that finished last: op, arg, ret (observer)
    lastSave,        \* per key, the configuration last given to saveMapping (observer)
    firstCreatedAt,  \* per key, the createdAt its first save assigned (observer)
    saveWriteFailed, \* a durable write of saveMapping has failed (observer)
    persisted,       \* per key: the file held it at the start, no delete since (observer)
    writeFailures,   \* the failures fs.writeFile has had so far (observer)
    \* MappingService.suggestMappings (src/src/services/mappingService.ts)
    sourceSchema,    \* the source schema tree
    targetSchema,    \* the target schema tree
    confidenceThreshold, \* the threshold the caller gave
    sourceFields,    \* extractFields(sourceSchema)
    targetFields,    \* extractFields(targetSchema)
    suggestions,     \* the suggestions pushed so far
    si,              \* position of the outer loop in sourceFields
    ti,              \* position of the inner loop in targetFields
    suggestPc,       \* "off", "idle", "scoring" or "returned"
    fieldPaths       \* what SchemaService.getFieldPaths(sourceSchema) returned

transformVars == <<heap, payload, mapping, pc, i, errors, warnings, unmappedFields,
                   transformedPayload, outcome, result, heap0, results, callsLeft,
                   validation>>

storeVars == <<disk, stores, storage, initialized, fileSystemWritable, procs,
               maxInFlight, opsLeft, now, reads, writes, nDone, last, lastSave,
               firstCreatedAt, saveWriteFailed, persisted, writeFailures>>

suggestVars == <<sourceSchema, targetSchema, confidenceThreshold, sourceFields,
                 targetFields, suggestions, si, ti, suggestPc, fieldPaths>>

vars == <<transformVars, storeVars, suggestVars>>

----------------------------------------------------------------------------
(* Bounds *)

MaxMappings == 2
MaxAliasMappings == 3
MaxStrLen == 3
MaxDepth == 4
MaxRequired == 1
MaxRules == 2
MaxSlots == 2
MaxOps == 2
MaxConcurrentOps == 2
MaxClearedOps == 3
MaxTime == 3

----------------------------------------------------------------------------
(* JavaScript values *)

Undefined == [t |-> "undefined"]
Null == [t |-> "null"]
Str(s) == [t |-> "string", v |-> s]
Num(m, e) == [t |-> "number", m |-> m, e |-> e]   \* the number m / 10^e
Bool(b) == [t |-> "boolean", v |-> b]
Ref(a) == [t |-> "object", a |-> a]               \* object or array, by reference

IsNullish(v) == v.t \in {"undefined", "null"}
IsRef(v) == v.t = "object"

\* !x for the values a field name can hold (undefined, null or a string)
Falsy(v) == v.t \in {"undefined", "null"} \/ (v.t = "string" /\ v.v = <<>>)

\* A heap cell.  props are the own properties [k, v] in insertion order
\* (the order of Object.keys); elems are the indexed elements of an array.
ObjCell(props) == [kind |-> "object", elems |-> <<>>, props |-> props]
ArrCell(elems) == [kind |-> "array", elems |-> elems, props |-> <<>>]
EmptyObj == ObjCell(<<>>)

SeqRange(s) == {s[k] : k \in 1..Len(s)}

----------------------------------------------------------------------------
(* Strings *)

Digits == <<"0", "1", "2", "3", "4", "5", "6", "7", "8", "9">>
IsDigit(c) == c \in SeqRange(Digits)
DigitVal(c) == (CHOOSE k \in 1..10 : Digits[k] = c) - 1
IsSpace(c) == c \in {" ", "\t", "\n"}

RECURSIVE Pow10(_)
Pow10(n) == IF n <= 0 THEN 1 ELSE 10 * Pow10(n - 1)

Drop(s, n) == SubSeq(s, n + 1, Len(s))

\* String.prototype.split(sep) for a one-character separator
RECURSIVE SplitAcc(_, _, _)
SplitAcc(s, sep, cur) ==
    IF s = <<>> THEN <<cur>>
    ELSE IF Head(s) = sep THEN <<cur>> \o SplitAcc(Tail(s), sep, <<>>)
    ELSE SplitAcc(Tail(s), sep, Append(cur, Head(s)))

SplitChar(s, sep) == SplitAcc(s, sep, <<>>)

RECURSIVE TrimLeft(_)
TrimLeft(s) == IF s # <<>> /\ IsSpace(Head(s)) THEN TrimLeft(Tail(s)) ELSE s

RECURSIVE TrimRight(_)
TrimRight(s) ==
    IF s # <<>> /\ IsSpace(s[Len(s)]) THEN TrimRight(SubSeq(s, 1, Len(s) - 1)) ELSE s

Trim(s) == TrimRight(TrimLeft(s))

\* Array.prototype.join over strings
RECURSIVE JoinStr(_, _)
JoinStr(parts, sep) ==
    IF parts = <<>> THEN <<>>
    ELSE IF Len(parts) = 1 THEN parts[1]
    ELSE parts[1] \o sep \o JoinStr(Tail(parts), sep)

LowerChar(c) ==
    CASE c = "T" -> "t" [] c = "N" -> "n" [] c = "O" -> "o" [] c = "Y" -> "y"
      [] OTHER -> c

ToLowerCase(s) == [k \in 1..Len(s) |-> LowerChar(s[k])]

\* decimal digits of a natural number
RECURSIVE NatToStr(_)
NatToStr(n) == IF n < 10 THEN <<Digits[n + 1]>> ELSE Append(NatToStr(n \div 10), Digits[(n % 10) + 1])

\* the last e digits of n, zero padded
RECURSIVE FracDigits(_, _)
FracDigits(n, e) == IF e = 0 THEN <<>> ELSE Append(FracDigits(n \div 10, e - 1), Digits[(n % 10) + 1])

\* a number in lowest decimal form: no trailing zero in the fraction
RECURSIVE Normalize(_, _)
Normalize(m, e) ==
    IF m = 0 THEN Num(0, 0)
    ELSE IF e < 0 THEN Normalize(m * 10, e + 1)
    ELSE IF e > 0 /\ m % 10 = 0 THEN Normalize(m \div 10, e - 1)
    ELSE Num(m, e)

\* Number.prototype.toString() of m / 10^e
NumToStr(n) ==
    LET a == IF n.m < 0 THEN -n.m ELSE n.m
        sign == IF n.m < 0 THEN <<"-">> ELSE <<>>
        ip == a \div Pow10(n.e)
        fp == a % Pow10(n.e)
    IN sign \o NatToStr(ip) \o (IF n.e = 0 THEN <<>> ELSE <<".">> \o FracDigits(fp, n.e))

RECURSIVE DigitPrefixLen(_)
DigitPrefixLen(s) == IF s # <<>> /\ IsDigit(Head(s)) THEN 1 + DigitPrefixLen(Tail(s)) ELSE 0

RECURSIVE DigitsVal(_)
DigitsVal(s) == IF s = <<>> THEN 0 ELSE DigitsVal(SubSeq(s, 1, Len(s) - 1)) * 10 + DigitVal(s[Len(s)])

NaN == [t |-> "number", nan |-> TRUE]
IsNaN(n) == "nan" \in DOMAIN n

\* parseFloat: skips leading white space, takes an optional sign and the
\* LONGEST prefix that is a decimal literal, and ignores whatever follows it;
\* NaN only when no digit was found.  (Exponents and "Infinity" use
\* characters outside the alphabet of the model.)
ParseFloat(s) ==
    LET t == TrimLeft(s)
        signed == t # <<>> /\ Head(t) \in {"-", "+"}
        neg == t # <<>> /\ Head(t) = "-"
        u == IF signed THEN Tail(t) ELSE t
        nI == DigitPrefixLen(u)
        afterI == Drop(u, nI)
        hasDot == afterI # <<>> /\ Head(afterI) = "."
        nF == IF hasDot THEN DigitPrefixLen(Tail(afterI)) ELSE 0
        mant == DigitsVal(SubSeq(u, 1, nI)) * Pow10(nF)
                  + (IF hasDot THEN DigitsVal(SubSeq(Tail(afterI), 1, nF)) ELSE 0)
    IN  IF nI + nF = 0 THEN NaN
        ELSE Normalize(IF neg THEN -mant ELSE mant, nF)

ObjectObject == <<"[", "o", "b", "j", "e", "c", "t", " ", "O", "b", "j", "e", "c", "t", "]">>

\* String(v) for a primitive
PrimToStr(v) ==
    CASE v.t = "string" -> v.v
      [] v.t = "number" -> NumToStr(v)
      [] v.t = "boolean" -> IF v.v THEN <<"t", "r", "u", "e">> ELSE <<"f", "a", "l", "s", "e">>
      [] v.t = "null" -> <<"n", "u", "l", "l">>
      [] v.t = "undefined" -> <<"u", "n", "d", "e", "f", "i", "n", "e", "d">>
      [] OTHER -> ObjectObject

\* an array element inside Array.prototype.join: null and undefined give ""
ElemToStr(v) == IF IsNullish(v) THEN <<>> ELSE PrimToStr(v)

JoinArray(elems, sep) == JoinStr([k \in 1..Len(elems) |-> ElemToStr(elems[k])], sep)

\* String(v): an array is its elements joined by ","
ToStringJS(h, v) ==
    IF IsRef(v) /\ h[v.a].kind = "array" THEN JoinArray(h[v.a].elems, <<",">>)
    ELSE PrimToStr(v)

----------------------------------------------------------------------------
(* Objects in the heap *)

HasOwn(cell, k) == \E j \in 1..Len(cell.props) : cell.props[j].k = k

GetOwn(cell, k) ==
    IF HasOwn(cell, k)
    THEN cell.props[CHOOSE j \in 1..Len(cell.props) : cell.props[j].k = k].v
    ELSE Undefined

\* (variant: the entry is set in an object that holds nothing else, as a
\* write-back of a collection rebuilt from nothing would)
SetOwnAlone(cell, k, v) == [cell EXCEPT !.props = <<[k |-> k, v |-> v]>>]

SetOwn(cell, k, v) ==
    IF HasOwn(cell, k)
    THEN LET j == CHOOSE j \in 1..Len(cell.props) : cell.props[j].k = k
         IN  [cell EXCEPT !.props[j].v = v]
    ELSE [cell EXCEPT !.props = Append(@, [k |-> k, v |-> v])]

\* Object.keys(obj)
ObjectKeys(cell) == [j \in 1..Len(cell.props) |-> cell.props[j].k]

\* current[part]: a property of an object; undefined on a primitive
GetProp(h, cur, part) == IF IsRef(cur) THEN GetOwn(h[cur.a], part) ELSE Undefined

RECURSIVE GetWalk(_, _, _)
GetWalk(h, cur, parts) ==
    IF parts = <<>> THEN cur
    ELSE IF IsNullish(cur) THEN Undefined
    ELSE GetWalk(h, GetProp(h, cur, Head(parts)), Tail(parts))

\* getNestedValue(obj, path): throws on an undefined or empty path
GetNestedValue(h, obj, path) ==
    IF Falsy(path)
    THEN [threw |-> TRUE, msg |-> "Field path is undefined or empty", v |-> Undefined]
    ELSE [threw |-> FALSE, msg |-> "", v |-> GetWalk(h, obj, SplitChar(path.v, "."))]

\* the loop and the final assignment of setNestedValue.  "part in current"
\* and (in strict mode) "current[k] = value" throw a TypeError when current
\* is not an object.
RECURSIVE SetWalk(_, _, _, _)
SetWalk(h, cur, parts, value) ==
    IF ~IsRef(cur) THEN [threw |-> TRUE, msg |-> "TypeError", heap |-> h]
    ELSE IF Len(parts) = 1
    THEN [threw |-> FALSE, msg |-> "", heap |-> [h EXCEPT ![cur.a] = SetOwn(@, parts[1], value)]]
    ELSE IF HasOwn(h[cur.a], Head(parts))
    THEN SetWalk(h, GetOwn(h[cur.a], Head(parts)), Tail(parts), value)
    ELSE LET a == Len(h) + 1
             h2 == Append([h EXCEPT ![cur.a] = SetOwn(@, Head(parts), Ref(a))], EmptyObj)
         IN  SetWalk(h2, Ref(a), Tail(parts), value)

\* setNestedValue(obj, path, value)
SetNestedValue(h, obj, path, value) ==
    IF Falsy(path)
    THEN [threw |-> TRUE, msg |-> "Field path is undefined or empty", heap |-> h]
    ELSE SetWalk(h, obj, SplitChar(path.v, "."), value)

\* the value tree a reference stands for, followed MaxDepth levels down
RECURSIVE Materialize(_, _, _)
Materialize(h, v, d) ==
    IF ~IsRef(v) THEN v
    ELSE IF d = 0 THEN [t |-> "deeper"]
    ELSE LET c == h[v.a]
         IN  [t |-> c.kind,
              elems |-> [k \in 1..Len(c.elems) |-> Materialize(h, c.elems[k], d - 1)],
              props |-> [k \in 1..Len(c.props) |->
                            [k |-> c.props[k].k, v |-> Materialize(h, c.props[k].v, d - 1)]]]

----------------------------------------------------------------------------
(* Transformation rules *)

\* A TransformationRule.  from/to are params.from/params.to, separator is
\* params.separator, table is params.table ([k, v] entries), function is
\* the rule's function; an absent member is Undefined.
Rule(type, from, to, separator, table, function) ==
    [t |-> "rule", type |-> type, from |-> from, to |-> to,
     separator |-> separator, table |-> table, function |-> function]

Table(entries) == [t |-> "table", entries |-> entries]

Returned(h, v) == [threw |-> FALSE, msg |-> "", v |-> v, heap |-> h]
Thrown(h, msg) == [threw |-> TRUE, msg |-> msg, v |-> Undefined, heap |-> h]

TrueWords == {<<"t", "r", "u", "e">>, <<"1">>, <<"y", "e", "s">>, <<"o", "n">>}
FalseWords == {<<"f", "a", "l", "s", "e">>, <<"0">>, <<"n", "o">>, <<"o", "f", "f">>}

\* the string -> number conversion of applyFormatTransformation
StringToNumber(h, value) ==
    LET num == ParseFloat(ToStringJS(h, value))
    IN  IF IsNaN(num) THEN Thrown(h, "Cannot convert to number") ELSE Returned(h, num)

\* applyFormatTransformation(value, transformation)
ApplyFormatTransformation(h, value, tr) ==
    CASE tr.from = "string" /\ tr.to = "number" -> StringToNumber(h, value)
      [] tr.from = "number" /\ tr.to = "string" -> Returned(h, Str(ToStringJS(h, value)))
      [] tr.from = "string" /\ tr.to = "boolean" ->
            LET strValue == ToLowerCase(ToStringJS(h, value))
            IN  IF strValue \in TrueWords THEN Returned(h, Bool(TRUE))
                ELSE IF strValue \in FalseWords THEN Returned(h, Bool(FALSE))
                ELSE Thrown(h, "Cannot convert to boolean")
      [] tr.from = "boolean" /\ tr.to = "string" ->
            \* value ? "true" : "false"
            Returned(h, Str(PrimToStr(Bool(~(IsNullish(value)
                                             \/ value = Bool(FALSE)
                                             \/ value = Str(<<>>)
                                             \/ (value.t = "number" /\ value.m = 0))))))
      [] OTHER -> Returned(h, value)

\* (variant: a custom rule with a function lets the value through)
CustomPassThrough(h, value, tr) ==
    IF Falsy(tr.function) THEN Thrown(h, "Custom transformation requires function")
    ELSE Returned(h, value)

\* the custom case of applyTransformation
CustomTransformation(h, value, tr) ==
    IF Falsy(tr.function) THEN Thrown(h, "Custom transformation requires function")
    ELSE Thrown(h, "Custom transformations not yet implemented")

\* applyTransformation(value, transformation)
ApplyTransformation(h, value, tr) ==
    CASE tr.type = "direct" -> Returned(h, value)
      [] tr.type = "format" -> ApplyFormatTransformation(h, value, tr)
      [] tr.type = "split" ->
            IF value.t # "string" THEN Thrown(h, "Split transformation requires string input")
            ELSE LET separator == IF Falsy(tr.separator) THEN "," ELSE tr.separator.v[1]
                     pieces == SplitChar(value.v, separator)
                     trimmed == [k \in 1..Len(pieces) |-> Str(Trim(pieces[k]))]
                 IN  Returned(Append(h, ArrCell(trimmed)), Ref(Len(h) + 1))
      [] tr.type = "join" ->
            IF ~(IsRef(value) /\ h[value.a].kind = "array")
            THEN Thrown(h, "Join transformation requires array input")
            ELSE LET joinSeparator == IF Falsy(tr.separator) THEN <<",", " ">> ELSE tr.separator.v
                 IN  Returned(h, Str(JoinArray(h[value.a].elems, joinSeparator)))
      [] tr.type = "lookup" ->
            IF tr.table = Undefined THEN Thrown(h, "Lookup transformation requires lookup table")
            ELSE LET key == ToStringJS(h, value)
                     hits == {k \in 1..Len(tr.table.entries) : tr.table.entries[k].k = key}
                     found == IF hits = {} THEN Undefined
                              ELSE tr.table.entries[CHOOSE k \in hits : TRUE].v
                 IN  Returned(h, IF IsNullish(found) THEN value ELSE found)
      [] tr.type = "custom" -> CustomTransformation(h, value, tr)
      [] OTHER -> Returned(h, value)

----------------------------------------------------------------------------
(* transformPayload *)

\* A FieldMapping; transformation is a Rule or Undefined
FieldMapping(sourceField, targetField, required, transformation) ==
    [sourceField |-> sourceField, targetField |-> targetField,
     required |-> required, transformation |-> transformation]

TransformationError(field, error, originalValue) ==
    [field |-> field, error |-> error, originalValue |-> originalValue]

NoError == [t |-> "none"]

StrUndefined == Str(<<"u", "n", "d", "e", "f", "i", "n", "e", "d">>)

\* x ?? "undefined"
OrUndefinedString(x) == IF IsNullish(x) THEN StrUndefined ELSE x

Exit(tag, err, h) == [exit |-> tag, err |-> err, heap |-> h]

\* (variant: the loop body without the guard, as in the build that predates it)
NoFieldGuard(fm) == FALSE

\* the guard on sourceField / targetField at the top of the loop body
InvalidFieldMapping(fm) == Falsy(fm.sourceField) \/ Falsy(fm.targetField)

\* (variant: only undefined counts as missing)
MissingRequiredUndefinedOnly(fm, value) == fm.required /\ value = Undefined

\* the test for a missing required value
MissingRequired(fm, value) == fm.required /\ IsNullish(value)

\* the catch clause around the body of the loop
CatchFailure(h, src, fm, msg) ==
    Exit("caught",
         TransformationError(OrUndefinedString(fm.sourceField),
                             <<"Failed to transform field", msg>>,
                             IF ~Falsy(fm.sourceField)
                             THEN GetNestedValue(h, src, fm.sourceField).v
                             ELSE Undefined),
         h)

\* the catch clause around applyTransformation
CatchTransformationFailure(h, fm, value, msg) ==
    Exit("transformFailed",
         TransformationError(fm.sourceField, <<"Transformation failed", msg>>, value),
         h)

\* One iteration of the loop over mapping.fieldMappings: which exit it
\* takes, the error it pushes (if any) and the heap it leaves.
ApplyFieldMapping(h, src, target, fm) ==
    IF InvalidFieldMapping(fm)
    THEN Exit("invalid",
              TransformationError(OrUndefinedString(fm.sourceField),
                                  <<"Invalid field mapping", fm.sourceField, fm.targetField>>,
                                  Undefined),
              h)
    ELSE LET got == GetNestedValue(h, src, fm.sourceField)
             value == got.v
         IN  IF got.threw THEN CatchFailure(h, src, fm, got.msg)
             ELSE IF MissingRequired(fm, value)
             THEN Exit("missingRequired",
                       TransformationError(fm.sourceField,
                                           <<"Required field is missing or null">>,
                                           Undefined),
                       h)
             ELSE IF value = Undefined THEN Exit("skipped", NoError, h)
             ELSE LET tv == IF fm.transformation # Undefined
                            THEN ApplyTransformation(h, value, fm.transformation)
                            ELSE Returned(h, value)
                  IN  IF tv.threw THEN CatchTransformationFailure(h, fm, value, tv.msg)
                      ELSE LET w == SetNestedValue(tv.heap, target, fm.targetField, tv.v)
                           IN  IF w.threw THEN CatchFailure(tv.heap, src, fm, w.msg)
                               ELSE Exit("written", NoError, w.heap)

\* (variant: the loop stops at the first failing correspondence)
NextIndexFailFast(k, n, exit) ==
    IF exit \in {"invalid", "missingRequired", "transformFailed", "caught"} THEN n + 1 ELSE k + 1

\* where the loop goes after an iteration
NextIndex(k, n, exit) == k + 1

Arr(elems) == [t |-> "array", v |-> elems]

UnmappedPrefix ==
    <<"U", "n", "m", "a", "p", "p", "e", "d", " ", "s", "o", "u", "r", "c", "e", " ",
      "f", "i", "e", "l", "d", "s", ":", " ">>

\* (variant: a key counts as mapped when a sourceField starts with it)
FindUnmappedByFirstSegment(keys, fieldMappings) ==
    LET mappedSourceFields ==
            {Str(SplitChar(fieldMappings[k].sourceField.v, ".")[1]) :
                k \in {j \in 1..Len(fieldMappings) : fieldMappings[j].sourceField.t = "string"}}
    IN  SelectSeq(keys, LAMBDA key : Str(key) \notin mappedSourceFields)

\* the keys of the payload that are the sourceField of no fieldMapping
FindUnmapped(keys, fieldMappings) ==
    LET mappedSourceFields == {fieldMappings[k].sourceField : k \in 1..Len(fieldMappings)}
    IN  SelectSeq(keys, LAMBDA key : Str(key) \notin mappedSourceFields)

\* (variant: the output object is returned whatever the errors)
BuildResultPartial(errs, warns, unmapped, target) ==
    [success |-> errs = <<>>,
     transformedPayload |-> target,
     errors |-> IF Len(errs) > 0 THEN Arr(errs) ELSE Undefined,
     warnings |-> IF Len(warns) > 0 THEN Arr(warns) ELSE Undefined,
     unmappedFields |-> IF Len(unmapped) > 0 THEN Arr(unmapped) ELSE Undefined]

\* the PayloadTransformResult built by the return statement
BuildResult(errs, warns, unmapped, target) ==
    [success |-> errs = <<>>,
     transformedPayload |-> IF errs = <<>> THEN target ELSE Undefined,
     errors |-> IF Len(errs) > 0 THEN Arr(errs) ELSE Undefined,
     warnings |-> IF Len(warns) > 0 THEN Arr(warns) ELSE Undefined,
     unmappedFields |-> IF Len(unmapped) > 0 THEN Arr(unmapped) ELSE Undefined]

\* a result with every reference replaced by the value tree it stands for
MaterializeResult(h, r) ==
    [r EXCEPT !.transformedPayload = Materialize(h, @, MaxDepth),
              !.errors = IF @ = Undefined THEN @
                         ELSE Arr([k \in 1..Len(@.v) |->
                                     [@.v[k] EXCEPT !.originalValue = Materialize(h, @, MaxDepth)]])]

\* transformPayload is entered: the locals are created and the unmapped
\* top-level keys are collected
Call ==
    /\ pc \in {"idle", "done"}
    /\ callsLeft > 0
    /\ callsLeft' = callsLeft - 1
    /\ errors' = <<>>
    /\ warnings' = <<>>
    /\ unmappedFields' = FindUnmapped(ObjectKeys(heap[payload.a]), mapping.fieldMappings)
    /\ heap' = Append(heap, EmptyObj)
    /\ transformedPayload' = Ref(Len(heap) + 1)
    /\ i' = 1
    /\ outcome' = <<>>
    /\ pc' = "loop"
    /\ result' = Undefined
    /\ validation' = Undefined
    /\ UNCHANGED <<payload, mapping, heap0, results>>
    /\ UNCHANGED <<storeVars, suggestVars>>

\* one iteration of the loop over mapping.fieldMappings
ProcessMapping ==
    /\ pc = "loop"
    /\ i <= Len(mapping.fieldMappings)
    /\ LET r == ApplyFieldMapping(heap, payload, transformedPayload, mapping.fieldMappings[i])
       IN  /\ heap' = r.heap
           /\ errors' = IF r.err = NoError THEN errors ELSE Append(errors, r.err)
           /\ outcome' = Append(outcome, [k |-> i, exit |-> r.exit])
           /\ i' = NextIndex(i, Len(mapping.fieldMappings), r.exit)
    /\ UNCHANGED <<payload, mapping, pc, warnings, unmappedFields, transformedPayload,
                   result, heap0, results, callsLeft, validation>>
    /\ UNCHANGED <<storeVars, suggestVars>>

\* the loop is over: the warning is added and the result returned
Finish ==
    /\ pc = "loop"
    /\ i > Len(mapping.fieldMappings)
    /\ LET warns == IF Len(unmappedFields) > 0
                    THEN Append(warnings,
                                Str(UnmappedPrefix \o JoinStr(unmappedFields, <<",", " ">>)))
                    ELSE warnings
           r == BuildResult(errors, warns, unmappedFields, transformedPayload)
       IN  /\ warnings' = warns
           /\ result' = r
           /\ results' = Append(results, MaterializeResult(heap, r))
    /\ pc' = "done"
    /\ UNCHANGED <<heap, payload, mapping, i, errors, unmappedFields, transformedPayload,
                   outcome, heap0, callsLeft, validation>>
    /\ UNCHANGED <<storeVars, suggestVars>>

----------------------------------------------------------------------------
(* validateTransformedPayload *)

\* (variant: the required check reads the source names)
RequiredSources(fieldMappings) ==
    LET req == SelectSeq(fieldMappings, LAMBDA m : m.required)
    IN  [k \in 1..Len(req) |-> req[k].sourceField]

\* requiredFields: the target paths of the required correspondences
RequiredTargets(fieldMappings) ==
    LET req == SelectSeq(fieldMappings, LAMBDA m : m.required)
    IN  [k \in 1..Len(req) |-> req[k].targetField]

\* the loop over requiredFields; getNestedValue throws on an empty path
RECURSIVE RequiredErrors(_, _, _)
RequiredErrors(h, obj, fields) ==
    IF fields = <<>> THEN [threw |-> FALSE, errors |-> <<>>]
    ELSE LET got == GetNestedValue(h, obj, Head(fields))
             rest == RequiredErrors(h, obj, Tail(fields))
         IN  IF got.threw \/ rest.threw THEN [threw |-> TRUE, errors |-> <<>>]
             ELSE IF IsNullish(got.v)
             THEN [rest EXCEPT !.errors =
                      <<[error |-> "Required field is missing", field |-> Head(fields)]>> \o @]
             ELSE rest

\* a ValidationRule; params is undefined or { pattern, min, max }
ValidationRule(field, type, params, errorMessage) ==
    [field |-> field, type |-> type, params |-> params, errorMessage |-> errorMessage]

Params(pattern, min, max) == [t |-> "params", pattern |-> pattern, min |-> min, max |-> max]

\* rule.params?.name
ParamOf(rule, name) ==
    IF rule.params = Undefined THEN Undefined
    ELSE CASE name = "pattern" -> rule.params.pattern
           [] name = "min" -> rule.params.min
           [] name = "max" -> rule.params.max

\* new RegExp(pattern) for the patterns of the model: literal characters,
\* an optional leading ^ and an optional trailing $.  A pattern with an
\* unclosed "(" is a SyntaxError.
RegExpThrows(pattern) == \E k \in 1..Len(pattern) : pattern[k] = "("

\* new RegExp(pattern).test(s)
RegExpTest(pattern, s) ==
    LET atStart == pattern # <<>> /\ Head(pattern) = "^"
        p1 == IF atStart THEN Tail(pattern) ELSE pattern
        atEnd == p1 # <<>> /\ p1[Len(p1)] = "$"
        body == IF atEnd THEN SubSeq(p1, 1, Len(p1) - 1) ELSE p1
        n == Len(body)
    IN  \E k \in 1..(Len(s) + 1) :
            /\ k + n - 1 <= Len(s)
            /\ SubSeq(s, k, k + n - 1) = body
            /\ atStart => k = 1
            /\ atEnd => k + n - 1 = Len(s)

\* a < b for two numbers m / 10^e
NumLess(a, b) == a.m * Pow10(b.e) < b.m * Pow10(a.e)

\* rule.errorMessage || the default text (named by its kind)
RuleError(rule, kind) ==
    [error |-> kind, field |-> rule.field,
     message |-> IF Falsy(rule.errorMessage) THEN Undefined ELSE rule.errorMessage]

\* the body of the loop over validationRules once the value has been read
CheckRule(h, rule, value) ==
    LET pattern == ParamOf(rule, "pattern")
        min == ParamOf(rule, "min")
        max == ParamOf(rule, "max")
        required == IF rule.type = "required" /\ IsNullish(value)
                    THEN <<RuleError(rule, "is required")>> ELSE <<>>
        tested == rule.type = "format" /\ value # Undefined /\ ~Falsy(pattern)
        format == IF tested /\ ~RegExpThrows(pattern.v)
                     /\ ~RegExpTest(pattern.v, ToStringJS(h, value))
                  THEN <<RuleError(rule, "does not match required format")>> ELSE <<>>
        ranged == rule.type = "range" /\ value.t = "number"
        below == IF ranged /\ min # Undefined /\ NumLess(value, min)
                 THEN <<RuleError(rule, "must be at least")>> ELSE <<>>
        above == IF ranged /\ max # Undefined /\ NumLess(max, value)
                 THEN <<RuleError(rule, "must be at most")>> ELSE <<>>
    IN  IF tested /\ RegExpThrows(pattern.v)
        THEN [threw |-> TRUE, msg |-> "SyntaxError: Invalid regular expression", errors |-> <<>>]
        ELSE [threw |-> FALSE, msg |-> "", errors |-> required \o format \o below \o above]

\* the loop over mapping.validationRules, in order; an exception ends it
RECURSIVE RuleErrors(_, _, _)
RuleErrors(h, obj, rules) ==
    IF rules = <<>> THEN [threw |-> FALSE, msg |-> "", errors |-> <<>>]
    ELSE LET got == GetNestedValue(h, obj, Head(rules).field)
         IN  IF got.threw THEN [threw |-> TRUE, msg |-> got.msg, errors |-> <<>>]
             ELSE LET here == CheckRule(h, Head(rules), got.v)
                      rest == RuleErrors(h, obj, Tail(rules))
                  IN  IF here.threw THEN here
                      ELSE IF rest.threw THEN rest
                      ELSE [rest EXCEPT !.errors = here.errors \o @]

\* validateTransformedPayload(payload, mapping)
ValidateTransformedPayload(h, obj, m) ==
    LET r == RequiredErrors(h, obj, RequiredTargets(m.fieldMappings))
        v == IF m.validationRules = Undefined THEN RuleErrors(h, obj, <<>>)
             ELSE RuleErrors(h, obj, m.validationRules.v)
    IN  IF r.threw THEN [t |-> "thrown", msg |-> "Field path is undefined or empty"]
        ELSE IF v.threw THEN [t |-> "thrown", msg |-> v.msg]
        ELSE [t |-> "validation", valid |-> Len(r.errors \o v.errors) = 0,
              errors |-> r.errors \o v.errors]

\* the caller validates a successful result (transform_a_to_b with validate)
Validate ==
    /\ pc = "done"
    /\ validation = Undefined
    /\ result.success
    /\ result.transformedPayload # Undefined
    /\ validation' = ValidateTransformedPayload(heap, result.transformedPayload, mapping)
    /\ UNCHANGED <<heap, payload, mapping, pc, i, errors, warnings, unmappedFields,
                   transformedPayload, outcome, result, heap0, results, callsLeft>>
    /\ UNCHANGED <<storeVars, suggestVars>>

Next == Call \/ ProcessMapping \/ Finish \/ Validate

\* validateTransformedPayload called on a payload and a configuration
ValidatePayload ==
    /\ pc = "validate"
    /\ validation' = ValidateTransformedPayload(heap, payload, mapping)
    /\ pc' = "validated"
    /\ UNCHANGED <<heap, payload, mapping, i, errors, warnings, unmappedFields,
                   transformedPayload, outcome, result, heap0, results, callsLeft>>
    /\ UNCHANGED <<storeVars, suggestVars>>

NextValidate == ValidatePayload

----------------------------------------------------------------------------
(* Inputs *)

kA == <<"a">>
kB == <<"b">>
kY == <<"y">>
pA == Str(<<"a">>)
pB == Str(<<"b">>)
pAY == Str(<<"a", ".", "y">>)
pX == Str(<<"x">>)
pXY == Str(<<"x", ".", "y">>)
pZ == Str(<<"z">>)
pEmpty == Str(<<>>)

NoRule == Undefined
Direct == Rule("direct", Undefined, Undefined, Undefined, Undefined, Undefined)
Custom(fn) == Rule("custom", Undefined, Undefined, Undefined, Undefined, fn)
Format(from, to) == Rule("format", from, to, Undefined, Undefined, Undefined)

SeqsUpTo(S, n) == UNION {[1..k -> S] : k \in 0..n}

Prop(k, v) == [k |-> k, v |-> v]

\* a payload is a heap whose cell 1 is the root object; an absent key is
\* given as Undefined; rest are the cells the values refer to (from 2 on)
PayloadOf(aVal, bVal, rest) ==
    <<ObjCell((IF aVal = Undefined THEN <<>> ELSE <<Prop(kA, aVal)>>)
              \o (IF bVal = Undefined THEN <<>> ELSE <<Prop(kB, bVal)>>))>> \o rest

Payloads ==
    {PayloadOf(Undefined, Undefined, <<>>), PayloadOf(Undefined, Num(7, 0), <<>>),
     PayloadOf(Null, Num(7, 0), <<>>), PayloadOf(Num(1, 0), Num(7, 0), <<>>),
     PayloadOf(Ref(2), Num(7, 0), <<EmptyObj>>),
     PayloadOf(Ref(2), Num(7, 0), <<ObjCell(<<Prop(kY, Num(2, 0))>>)>>)}

FieldMappings ==
    {FieldMapping(s, t, r, NoRule) : s \in {pA, pB, pAY}, t \in {pX, pXY, pZ}, r \in BOOLEAN}
    \cup {FieldMapping(Undefined, pX, FALSE, NoRule), FieldMapping(pEmpty, pX, FALSE, NoRule),
          FieldMapping(pA, pEmpty, FALSE, NoRule), FieldMapping(pA, Undefined, FALSE, NoRule)}
    \cup {FieldMapping(pA, pX, r, Custom(fn)) : r \in BOOLEAN, fn \in {Undefined, Str(<<"f">>)}}
    \cup {FieldMapping(pB, pZ, TRUE, Direct)}

----------------------------------------------------------------------------
(* Mapping repository: StorageService *)

\* new Date().toISOString() at clock value n
Time(n) == [t |-> "time", n |-> n]

Endpoint(path) == [t |-> "endpoint", path |-> path]

\* a correspondence as a caller or a stored document supplies it; a key that
\* is absent holds Undefined
RawFieldMapping(sourceField, source_field, targetField, target_field,
                sourceType, source_type, targetType, target_type, required, description) ==
    [t |-> "fm", sourceField |-> sourceField, source_field |-> source_field,
     targetField |-> targetField, target_field |-> target_field,
     sourceType |-> sourceType, source_type |-> source_type,
     targetType |-> targetType, target_type |-> target_type,
     transformation |-> Undefined, confidence |-> Undefined,
     required |-> required, description |-> description]

\* a ?? b
Coalesce(a, b) == IF IsNullish(a) THEN b ELSE a

\* (variant: the build in src/dist/services/storageService.js stores the
\* correspondences as given)
StoredAsGiven(fm) == fm

\* normalizeFieldMapping(fm): an object with exactly the seven camelCase keys
NormalizeFieldMapping(fm) ==
    [t |-> "fm",
     sourceField |-> Coalesce(fm.sourceField, fm.source_field),
     targetField |-> Coalesce(fm.targetField, fm.target_field),
     transformation |-> Coalesce(fm.transformation, Null),
     confidence |-> Coalesce(fm.confidence, Null),
     required |-> Coalesce(fm.required, Bool(FALSE)),
     sourceType |-> Coalesce(Coalesce(fm.sourceType, fm.source_type), Undefined),
     targetType |-> Coalesce(Coalesce(fm.targetType, fm.target_type), Undefined),
     source_field |-> Undefined, target_field |-> Undefined,
     source_type |-> Undefined, target_type |-> Undefined,
     description |-> Undefined]

\* fieldMappings.map(fm => normalizeFieldMapping(fm)) when fieldMappings is
\* an array; reading a key of a null entry is a TypeError
NormalizeFieldMappings(fieldMappings) ==
    IF fieldMappings.t # "array" THEN [threw |-> FALSE, v |-> fieldMappings]
    ELSE IF \E k \in 1..Len(fieldMappings.v) : IsNullish(fieldMappings.v[k])
    THEN [threw |-> TRUE, v |-> fieldMappings]
    ELSE [threw |-> FALSE,
          v |-> Arr([k \in 1..Len(fieldMappings.v) |-> NormalizeFieldMapping(fieldMappings.v[k])])]

\* a SchemaMapping as the repository sees it
Config(id, name, sourceEndpoint, targetEndpoint, fieldMappings, createdAt) ==
    [t |-> "config", id |-> id, name |-> name, sourceEndpoint |-> sourceEndpoint,
     targetEndpoint |-> targetEndpoint, fieldMappings |-> fieldMappings,
     createdAt |-> createdAt, updatedAt |-> Undefined]

\* the loop of validateMappingStructure over the correspondences
RECURSIVE FieldMappingsPopulated(_)
FieldMappingsPopulated(fms) ==
    IF fms = <<>> THEN [threw |-> FALSE, ok |-> TRUE]
    ELSE IF IsNullish(Head(fms)) THEN [threw |-> TRUE, ok |-> FALSE]
    ELSE IF Falsy(Coalesce(Head(fms).sourceField, Head(fms).source_field))
            \/ Falsy(Coalesce(Head(fms).targetField, Head(fms).target_field))
    THEN [threw |-> FALSE, ok |-> FALSE]
    ELSE FieldMappingsPopulated(Tail(fms))

\* typeof mapping.id === "string" && typeof mapping.name === "string"
StringIdAndName(cfg) == cfg.id.t = "string" /\ cfg.name.t = "string"

\* validateMappingStructure(mapping)
ValidateMappingStructure(cfg) ==
    IF \/ IsNullish(cfg)
       \/ ~StringIdAndName(cfg)
       \/ IsNullish(cfg.sourceEndpoint)
       \/ IsNullish(cfg.targetEndpoint)
       \/ cfg.fieldMappings.t # "array"
    THEN [threw |-> FALSE, ok |-> FALSE]
    ELSE FieldMappingsPopulated(cfg.fieldMappings.v)

\* delete cell[k]
DeleteOwn(cell, k) == [cell EXCEPT !.props = SelectSeq(@, LAMBDA e : e.k # k)]

\* Object.values(obj)
ObjectValues(cell) == [j \in 1..Len(cell.props) |-> cell.props[j].v]

\* A text: something that does not parse, or the JSON text of a document.
\* JSON.stringify leaves out the keys that hold undefined, which is how an
\* absent key is held here, and writes null, numbers and strings as they are.
Garbage == [t |-> "garbage"]
JsonText(doc) == [t |-> "json", doc |-> doc]
JsonObject(props) == [t |-> "jsonObject", props |-> props]

\* JSON.stringify(v, null, 2) of the value StorageService.storage holds
JsonStringify(h, v) ==
    IF IsRef(v) THEN JsonText(JsonObject(h[v.a].props)) ELSE JsonText(v)

\* JSON.parse(text): throws a SyntaxError on a text that is not JSON; an
\* object of the document becomes a new object of the heap
JsonParse(h, text) ==
    IF text.t = "garbage" THEN [threw |-> TRUE, heap |-> h, v |-> Undefined]
    ELSE IF text.doc.t = "jsonObject"
    THEN [threw |-> FALSE, heap |-> Append(h, ObjCell(text.doc.props)), v |-> Ref(Len(h) + 1)]
    ELSE [threw |-> FALSE, heap |-> h, v |-> text.doc]

\* the storage file
Missing == [t |-> "missing"]          \* readFile fails with ENOENT
Unreadable == [t |-> "unreadable"]    \* readFile fails otherwise
File(text) == [t |-> "file", text |-> text]

\* the try / catch of initialize(): storage is what the file parses to, or
\* a new empty object when reading or parsing fails
LoadStorage(h, d) ==
    LET parsed == IF d.t = "file" THEN JsonParse(h, d.text)
                  ELSE [threw |-> TRUE, heap |-> h, v |-> Undefined]
    IN  IF parsed.threw THEN [heap |-> Append(h, EmptyObj), v |-> Ref(Len(h) + 1)]
        ELSE [heap |-> parsed.heap, v |-> parsed.v]

\* the key a configuration is stored under: mappings[mapping.id]
KeyOf(id) == PrimToStr(id)

\* typeof data === "object" && data !== null, for a text that parses
ImportParses(text) == text.t = "json" /\ text.doc.t = "jsonObject"

\* Calls the callers make.  Configurations: correspondences keyed in
\* camelCase, in snake_case, in both, unpopulated, a null entry, no array;
\* createdAt as the mapping_save handler sets it (the time of the call) or
\* absent; a missing name or endpoint.  Documents to import: not JSON, not
\* an object, entries that are refused, an entry whose key is not its id.
id1 == Str(<<"m", "1">>)
id2 == Str(<<"m", "2">>)
Keys == {KeyOf(id1), KeyOf(id2)}
aName == Str(<<"n">>)
tString == Str(<<"s">>)
tNumber == Str(<<"n">>)
HandlerNow == [t |-> "now"]

fmCamel == RawFieldMapping(pA, Undefined, pX, Undefined, tString, Undefined, tNumber, Undefined,
                           Bool(TRUE), Str(<<"d">>))
fmSnake == RawFieldMapping(Undefined, pB, Undefined, pZ, Undefined, tString, Undefined, tNumber,
                           Undefined, Undefined)
fmBoth == RawFieldMapping(pA, pB, pX, pZ, tString, tNumber, Undefined, Undefined,
                          Null, Undefined)
fmUnpopulated == RawFieldMapping(pEmpty, Undefined, pX, Undefined, Undefined, Undefined,
                                 Undefined, Undefined, Undefined, Undefined)

\* a correspondence with a rule and no description
fmRule == [fmCamel EXCEPT !.transformation = Direct, !.description = Undefined]

FieldMappingsGiven ==
    {Undefined, Arr(<<>>), Arr(<<fmSnake, fmCamel>>), Arr(<<fmBoth>>), Arr(<<fmUnpopulated>>),
     Arr(<<fmCamel, Null>>), Arr(<<fmRule>>)}

SavedConfigs ==
    {Config(id1, aName, Endpoint("/a"), Endpoint("/b"), fms, HandlerNow) : fms \in FieldMappingsGiven}
    \cup {Config(id1, aName, Endpoint("/a"), Endpoint("/b"), Arr(<<fmSnake, fmCamel>>), Undefined),
          Config(id2, aName, Endpoint("/a"), Endpoint("/b"), Arr(<<fmCamel>>), HandlerNow),
          Config(id2, Str(<<>>), Undefined, Endpoint("/b"), Arr(<<>>), HandlerNow)}

\* a configuration as a document holds it: stored earlier, with its times
Held(id, name, fms) ==
    [Config(id, name, Endpoint("/a"), Endpoint("/b"), fms, Time(0)) EXCEPT !.updatedAt = Time(0)]

Entry(k, v) == [k |-> KeyOf(k), v |-> v]

ImportTexts ==
    {Garbage, JsonText(Null),
     JsonText(JsonObject(<<Entry(id1, Held(id1, aName, Arr(<<fmSnake, fmCamel>>))),
                           Entry(id2, Held(id2, aName, Arr(<<fmUnpopulated>>)))>>)),
     JsonText(JsonObject(<<Entry(id1, Null),
                           Entry(id2, Held(id2, aName, Arr(<<fmCamel>>)))>>)),
     JsonText(JsonObject(<<Entry(id1, Held(id1, aName, Arr(<<fmCamel, Null>>))),
                           Entry(id2, Held(id2, Str(<<>>), Arr(<<>>)))>>)),
     JsonText(JsonObject(<<Entry(id1, Held(id2, aName, Arr(<<fmCamel>>)))>>))}

\* what the storage file may hold when the process starts
Disks ==
    {Missing, Unreadable, File(Garbage), File(JsonText(Null)),
     File(JsonText(JsonObject(<<Entry(id1, Held(id1, aName,
                                   Arr(<<NormalizeFieldMapping(fmCamel)>>)))>>))),
     File(JsonText(JsonObject(<<Entry(id2, Held(id2, aName, Arr(<<fmSnake>>)))>>)))}

OverlappingCalls ==
    {[op |-> "getMapping", arg |-> id1], [op |-> "listMappings", arg |-> Undefined],
     [op |-> "deleteMapping", arg |-> id1],
     [op |-> "exportMappings", arg |-> Undefined],
     [op |-> "findMappingsByEndpoint", arg |-> "/a"],
     [op |-> "saveMapping",
      arg |-> Config(id1, aName, Endpoint("/a"), Endpoint("/b"), Arr(<<fmSnake, fmCamel>>), HandlerNow)],
     [op |-> "saveMapping",
      arg |-> Config(id2, aName, Endpoint("/a"), Endpoint("/b"), Arr(<<fmCamel>>), HandlerNow)],
     [op |-> "importMappings",
      arg |-> JsonText(JsonObject(<<Entry(id1, Null),
                                    Entry(id2, Held(id2, aName, Arr(<<fmCamel>>)))>>))]}

Calls ==
    {[op |-> "getMapping", arg |-> id] : id \in {id1, id2}}
    \cup {[op |-> "listMappings", arg |-> Undefined], [op |-> "exportMappings", arg |-> Undefined],
          [op |-> "findMappingsByEndpoint", arg |-> "/a"],
          [op |-> "deleteMapping", arg |-> id1]}
    \cup {[op |-> "saveMapping", arg |-> c] : c \in SavedConfigs}
    \cup {[op |-> "importMappings", arg |-> text] : text \in ImportTexts}

\* observers
None == [t |-> "none"]
ThrownBy(cause, msg) == [t |-> "thrown", cause |-> cause, msg |-> msg]

IdleProc == [pc |-> "idle"]
Slots == DOMAIN procs
InFlight == {p \in Slots : procs[p].pc # "idle"}
FreeSlot == CHOOSE p \in Slots : procs[p].pc = "idle" /\ \A q \in Slots : q < p => procs[q].pc # "idle"

\* this.initialized after the first statements of initialize()
\* (variant: the flag is raised only when the read has finished)
InitializedWhenLoaded(flag) == flag

InitializedOnEntry(flag) == TRUE

\* callers whose calls overlap make the calls of the smaller menu
CallsMade == IF maxInFlight > 1 THEN OverlappingCalls ELSE Calls

\* A call is made (the clock may have advanced when a configuration is
\* saved).  Each repository method starts with
\* await this.loadMappings(), which runs initialize() up to its first await:
\* when the store is not initialized the flag is set and the file read is
\* started; otherwise the method continues in a later turn.  importMappings
\* parses its argument first and does not get as far when that fails.
\* The promise jobs of a call run in order up to its body, so the body of an
\* earlier call has run when the next call is made.
Invoke ==
    /\ opsLeft > 0
    /\ Cardinality(InFlight) < maxInFlight
    /\ \A q \in Slots : procs[q].pc # "loaded"
    /\ \E call \in CallsMade, t \in {now, now + 1} :
        /\ t <= MaxTime
        /\ t # now => call.op = "saveMapping"
        /\ now' = t
        /\ LET arg == IF call.op = "saveMapping" /\ call.arg.createdAt = HandlerNow
                      THEN [call.arg EXCEPT !.createdAt = Time(t)] ELSE call.arg
               parsed == call.op # "importMappings" \/ ImportParses(call.arg)
               reading == parsed /\ ~initialized
           IN  /\ procs' = [procs EXCEPT ![FreeSlot] =
                               [pc |-> IF reading THEN "reading" ELSE "loaded",
                                op |-> call.op, arg |-> arg, parsed |-> parsed,
                                ret |-> Undefined, data |-> Undefined]]
               /\ initialized' = IF reading THEN InitializedOnEntry(initialized) ELSE initialized
               /\ reads' = IF reading THEN reads + 1 ELSE reads
    /\ opsLeft' = opsLeft - 1
    /\ UNCHANGED <<disk, stores, storage, fileSystemWritable, maxInFlight, writes, nDone,
                   last, lastSave, firstCreatedAt, saveWriteFailed, persisted,
                       writeFailures>>
    /\ UNCHANGED <<transformVars, suggestVars>>

\* fs.readFile has finished: the rest of initialize().  The completion is
\* delivered in a later turn of the event loop, after the promise jobs of
\* the calls made meanwhile have run: those calls have passed their bodies
InitializeRead ==
    \E p \in Slots :
        /\ procs[p].pc = "reading"
        /\ \A q \in Slots : procs[q].pc # "loaded"
        /\ LET loaded == LoadStorage(stores, disk)
           IN  /\ stores' = loaded.heap
               /\ storage' = loaded.v
        /\ initialized' = TRUE
        /\ procs' = [procs EXCEPT ![p].pc = "loaded"]
        /\ UNCHANGED <<disk, fileSystemWritable, maxInFlight, opsLeft, now, reads, writes,
                       nDone, last, lastSave, firstCreatedAt, saveWriteFailed, persisted,
                       writeFailures>>
        /\ UNCHANGED <<transformVars, suggestVars>>

\* the call of slot p returns ret (or throws, when ret is a thrown record)
Complete(p, ret, wrote) ==
    /\ procs' = [procs EXCEPT ![p] = IdleProc]
    /\ last' = [op |-> procs[p].op, arg |-> procs[p].arg, ret |-> ret, wrote |-> wrote]
    /\ nDone' = nDone + 1

\* saveMappings(mappings) up to its await: the cache is replaced and, unless
\* the file system is known to be read-only, the document is serialized and
\* the write started
SaveMappings(p, h, mappings, ret) ==
    /\ stores' = h
    /\ storage' = mappings
    /\ IF fileSystemWritable
       THEN /\ procs' = [procs EXCEPT ![p].pc = "writing", ![p].ret = ret,
                                      ![p].data = JsonStringify(h, mappings)]
            /\ writes' = writes + 1
            /\ UNCHANGED <<last, nDone>>
       ELSE /\ Complete(p, ret, "skipped")
            /\ UNCHANGED writes

\* the catch of saveMappings: is the failure a read-only file system, and
\* does the failure leave saveMappings
\* (variant: only the read-only failure is absorbed)
CatchReadOnlyOnly(errorMsg) ==
    [readOnly |-> errorMsg \in {"EROFS", "read-only"},
     raised |-> errorMsg \notin {"EROFS", "read-only"}]

CatchWriteFailure(errorMsg) ==
    [readOnly |-> errorMsg \in {"EROFS", "read-only"}, raised |-> FALSE]

WriteOutcomes == {"ok", "EROFS", "EIO"}

\* fs.writeFile has finished, well or not: the rest of saveMappings, and of
\* the method that called it
SaveMappingsWritten ==
    \E p \in Slots, written \in WriteOutcomes :
        /\ procs[p].pc = "writing"
        /\ LET caught == CatchWriteFailure(written)
           IN  /\ disk' = IF written = "ok" THEN File(procs[p].data) ELSE disk
               /\ fileSystemWritable' =
                     IF written # "ok" /\ caught.readOnly THEN FALSE ELSE fileSystemWritable
               /\ saveWriteFailed' =
                     (saveWriteFailed \/ (written # "ok" /\ procs[p].op = "saveMapping"))
               /\ writeFailures' = writeFailures \cup ({written} \ {"ok"})
               /\ Complete(p, IF written # "ok" /\ caught.raised
                              THEN ThrownBy("write", written) ELSE procs[p].ret, written)
        /\ UNCHANGED <<stores, storage, initialized, maxInFlight, opsLeft, now, reads,
                       writes, lastSave, firstCreatedAt, persisted>>
        /\ UNCHANGED <<transformVars, suggestVars>>

\* what the bodies below never change
BodyFrame == UNCHANGED <<disk, initialized, fileSystemWritable, maxInFlight, opsLeft, now,
                         reads, saveWriteFailed, writeFailures>>
             /\ UNCHANGED <<transformVars, suggestVars>>

\* mappings[id] || null
LookUp(h, mappings, key) ==
    IF IsNullish(mappings) THEN ThrownBy("storage", "TypeError: cannot read properties of null")
    ELSE IF ~IsRef(mappings) THEN Null
    ELSE LET v == GetOwn(h[mappings.a], key) IN IF Falsy(v) THEN Null ELSE v

\* getMapping(id), after await this.loadMappings()
GetMapping ==
    \E p \in Slots :
        /\ procs[p].pc = "loaded" /\ procs[p].op = "getMapping"
        /\ Complete(p, LookUp(stores, storage, procs[p].arg.v), "none")
        /\ UNCHANGED <<stores, storage, writes, lastSave, firstCreatedAt, persisted>>
        /\ BodyFrame

\* Object.values(mappings): the stored values, none on a number, a TypeError
\* on null
ValuesOf(h, mappings) ==
    IF IsNullish(mappings) THEN ThrownBy("storage", "TypeError: cannot convert null to object")
    ELSE IF ~IsRef(mappings) THEN Arr(<<>>)
    ELSE Arr(ObjectValues(h[mappings.a]))

\* listMappings(): id and name of every stored value
ListMappings ==
    \E p \in Slots :
        /\ procs[p].pc = "loaded" /\ procs[p].op = "listMappings"
        /\ LET vs == ValuesOf(stores, storage)
           IN  Complete(p,
                 IF vs.t = "thrown" THEN vs
                 ELSE IF \E k \in 1..Len(vs.v) : IsNullish(vs.v[k])
                 THEN ThrownBy("storage", "TypeError: cannot read properties of null")
                 ELSE Arr([k \in 1..Len(vs.v) |-> [id |-> vs.v[k].id, name |-> vs.v[k].name]]), "none")
        /\ UNCHANGED <<stores, storage, writes, lastSave, firstCreatedAt, persisted>>
        /\ BodyFrame

\* findMappingsByEndpoint("A", path): the stored configurations whose
\* sourceEndpoint has the path; reading the path of a missing endpoint is a
\* TypeError
FindMappingsByEndpoint ==
    \E p \in Slots :
        /\ procs[p].pc = "loaded" /\ procs[p].op = "findMappingsByEndpoint"
        /\ LET vs == ValuesOf(stores, storage)
           IN  Complete(p,
                 IF vs.t = "thrown" THEN vs
                 ELSE IF \E k \in 1..Len(vs.v) :
                            IsNullish(vs.v[k]) \/ IsNullish(vs.v[k].sourceEndpoint)
                 THEN ThrownBy("storage", "TypeError: cannot read properties of undefined")
                 ELSE Arr(SelectSeq(vs.v, LAMBDA m : m.sourceEndpoint.path = procs[p].arg)), "none")
        /\ UNCHANGED <<stores, storage, writes, lastSave, firstCreatedAt, persisted>>
        /\ BodyFrame

\* exportMappings(): the cache serialized
ExportMappings ==
    \E p \in Slots :
        /\ procs[p].pc = "loaded" /\ procs[p].op = "exportMappings"
        /\ Complete(p, JsonStringify(stores, storage), "none")
        /\ UNCHANGED <<stores, storage, writes, lastSave, firstCreatedAt, persisted>>
        /\ BodyFrame

\* createdAt after saveMapping: the caller's, or updatedAt when the caller
\* supplied none
CreatedAt(cfg, updatedAt) ==
    IF Falsy(cfg.createdAt) THEN updatedAt ELSE cfg.createdAt

\* saveMapping(mapping), after await this.loadMappings() and up to the await
\* inside saveMappings
SaveMapping ==
    \E p \in Slots :
        /\ procs[p].pc = "loaded" /\ procs[p].op = "saveMapping"
        /\ LET cfg == procs[p].arg
               key == KeyOf(cfg.id)
               fms == NormalizeFieldMappings(cfg.fieldMappings)
               updatedAt == Time(now)
               stored == [cfg EXCEPT !.fieldMappings = fms.v, !.updatedAt = updatedAt,
                                         !.createdAt = CreatedAt(cfg, updatedAt)]
           IN  IF fms.threw
               THEN /\ Complete(p, ThrownBy("input", "TypeError: cannot read properties of null"), "none")
                    /\ UNCHANGED <<stores, storage, writes, lastSave, firstCreatedAt, persisted>>
               ELSE IF ~IsRef(storage)
               THEN /\ Complete(p, ThrownBy("storage", "TypeError: cannot set properties"), "none")
                    /\ UNCHANGED <<stores, storage, writes, lastSave, firstCreatedAt, persisted>>
               ELSE /\ SaveMappings(p, [stores EXCEPT ![storage.a] = SetOwn(@, key, stored)],
                                    storage, Undefined)
                    /\ lastSave' = [lastSave EXCEPT ![key] = cfg]
                    /\ firstCreatedAt' = [firstCreatedAt EXCEPT ![key] =
                                             IF @ = None THEN stored.createdAt ELSE @]
                    /\ UNCHANGED persisted
        /\ BodyFrame

\* deleteMapping(id)
DeleteMapping ==
    \E p \in Slots :
        /\ procs[p].pc = "loaded" /\ procs[p].op = "deleteMapping"
        /\ LET key == procs[p].arg.v
               found == LookUp(stores, storage, key)
           IN  IF found.t = "thrown"
               THEN /\ Complete(p, found, "none")
                    /\ UNCHANGED <<stores, storage, writes, lastSave, firstCreatedAt, persisted>>
               ELSE IF found = Null
               THEN /\ Complete(p, Bool(FALSE), "none")
                    /\ UNCHANGED <<stores, storage, writes, lastSave, firstCreatedAt, persisted>>
               ELSE /\ SaveMappings(p, [stores EXCEPT ![storage.a] = DeleteOwn(@, key)],
                                    storage, Bool(TRUE))
                    /\ lastSave' = [lastSave EXCEPT ![key] = None]
                    /\ firstCreatedAt' = [firstCreatedAt EXCEPT ![key] = None]
                    /\ persisted' = [k \in DOMAIN persisted |-> persisted[k] /\ k # key]
        /\ BodyFrame

\* the loop of importMappings over Object.entries(data): an entry that
\* validateMappingStructure refuses, or that makes it or the assignment
\* throw, adds an error; the others are normalized and stored under the key
\* of the entry
RECURSIVE ImportEntries(_, _, _)
ImportEntries(h, mappings, entries) ==
    IF entries = <<>> THEN [heap |-> h, imported |-> 0, errors |-> <<>>]
    ELSE LET id == Head(entries).k
             cfg == Head(entries).v
             checked == ValidateMappingStructure(cfg)
             failed == checked.threw \/ (checked.ok /\ ~IsRef(mappings))
             invalid == ~checked.threw /\ ~checked.ok
             normalized == [cfg EXCEPT !.fieldMappings = NormalizeFieldMappings(@).v]
             h2 == IF failed \/ invalid THEN h
                   ELSE [h EXCEPT ![mappings.a] = SetOwn(@, id, normalized)]
             rest == ImportEntries(h2, mappings, Tail(entries))
         IN  [heap |-> rest.heap,
              imported |-> rest.imported + (IF failed \/ invalid THEN 0 ELSE 1),
              errors |-> (IF invalid THEN <<[error |-> "Invalid mapping structure", id |-> id]>>
                          ELSE IF failed THEN <<[error |-> "Failed to import mapping", id |-> id]>>
                          ELSE <<>>) \o rest.errors]

\* the keys of the entries the loop stores
ImportedKeys(mappings, entries) ==
    {entries[k].k : k \in {j \in 1..Len(entries) :
        LET checked == ValidateMappingStructure(entries[j].v)
        IN  ~checked.threw /\ checked.ok /\ IsRef(mappings)}}

ImportResult(imported, errs) == [t |-> "import", imported |-> imported, errors |-> errs]

\* importMappings(json): the outer catch when the text does not parse to an
\* object, else the loop and saveMappings
ImportMappings ==
    \E p \in Slots :
        /\ procs[p].pc = "loaded" /\ procs[p].op = "importMappings"
        /\ IF ~procs[p].parsed
           THEN /\ Complete(p, ImportResult(0, <<[error |-> "Failed to parse JSON", id |-> <<>>]>>), "none")
                /\ UNCHANGED <<stores, storage, writes, lastSave, firstCreatedAt, persisted>>
           ELSE LET entries == procs[p].arg.doc.props
                    r == ImportEntries(stores, storage, entries)
                    keys == ImportedKeys(storage, entries)
                IN  /\ SaveMappings(p, r.heap, storage, ImportResult(r.imported, r.errors))
                    /\ lastSave' = [k \in DOMAIN lastSave |->
                                      IF k \in keys THEN None ELSE lastSave[k]]
                    /\ firstCreatedAt' = [k \in DOMAIN firstCreatedAt |->
                                            IF k \in keys THEN None ELSE firstCreatedAt[k]]
                    /\ UNCHANGED persisted
        /\ BodyFrame

\* (variant: clearing the cache also forgets that the file system is
\* read-only)
ClearCacheAndFlag ==
    /\ opsLeft > 0
    /\ \A q \in Slots : procs[q].pc # "loaded"
    /\ stores' = Append(stores, EmptyObj)
    /\ storage' = Ref(Len(stores) + 1)
    /\ initialized' = FALSE
    /\ fileSystemWritable' = TRUE
    /\ opsLeft' = opsLeft - 1
    /\ UNCHANGED <<disk, procs, maxInFlight, now, reads, writes, nDone, last,
                   lastSave, firstCreatedAt, saveWriteFailed, persisted, writeFailures>>
    /\ UNCHANGED <<transformVars, suggestVars>>

\* clearCache(): a new empty object is the cache and the next call loads the
\* file again; fileSystemWritable is left as it is
ClearCache ==
    /\ opsLeft > 0
    /\ \A q \in Slots : procs[q].pc # "loaded"
    /\ stores' = Append(stores, EmptyObj)
    /\ storage' = Ref(Len(stores) + 1)
    /\ initialized' = FALSE
    /\ opsLeft' = opsLeft - 1
    /\ UNCHANGED <<disk, fileSystemWritable, procs, maxInFlight, now, reads, writes, nDone,
                   last, lastSave, firstCreatedAt, saveWriteFailed, persisted, writeFailures>>
    /\ UNCHANGED <<transformVars, suggestVars>>

NextStore ==
    \/ Invoke
    \/ InitializeRead
    \/ GetMapping
    \/ ListMappings
    \/ FindMappingsByEndpoint
    \/ ExportMappings
    \/ SaveMapping
    \/ DeleteMapping
    \/ ImportMappings
    \/ SaveMappingsWritten

\* the static fields of StorageService when the module is loaded
StorageLoaded ==
    /\ stores = <<EmptyObj>>
    /\ storage = Ref(1)
    /\ initialized = FALSE
    /\ fileSystemWritable = TRUE
    /\ procs = [p \in 1..MaxSlots |-> IdleProc]
    /\ now = 1
    /\ reads = 0
    /\ writes = 0
    /\ nDone = 0
    /\ last = None
    /\ lastSave = [k \in Keys |-> None]
    /\ firstCreatedAt = [k \in Keys |-> None]
    /\ saveWriteFailed = FALSE
    /\ writeFailures = {}

\* the keys of the document the storage file holds
PersistedOn(d) ==
    [k \in Keys |->
        /\ d.t = "file"
        /\ d.text.t = "json"
        /\ d.text.doc.t = "jsonObject"
        /\ \E j \in 1..Len(d.text.doc.props) : d.text.doc.props[j].k = k]

\* the repository is not called
StoreOff ==
    /\ StorageLoaded
    /\ persisted = [k \in Keys |-> FALSE]
    /\ disk = Missing
    /\ maxInFlight = 0
    /\ opsLeft = 0

----------------------------------------------------------------------------
(* Field matching: MappingService *)

(* The scores are IEEE 754 doubles.  A double d that is 0 or has
   2^-4 <= d < 4 is held as the integer d * 2^56, written in five limbs of
   14 bits, least significant first; every literal and every intermediate
   value of calculateFieldSimilarity is such a double.  Sums and products
   are formed exactly and rounded to 53 significant bits, ties to even. *)
Limb(n) == n % 16384

Carry(n) == n \div 16384

d0_0 == <<0, 0, 0, 0, 0>>
d0_1 == <<6554, 9830, 6553, 1638, 0>>
d0_2 == <<13108, 3276, 13107, 3276, 0>>
d0_3 == <<3276, 13107, 3276, 4915, 0>>
d0_5 == <<0, 0, 0, 8192, 0>>
d0_7 == <<13104, 3276, 13107, 11468, 0>>
d0_9 == <<9832, 6553, 9830, 14745, 0>>
d1_0 == <<0, 0, 0, 0, 1>>

RECURSIVE AddLimbs(_, _, _)
AddLimbs(a, b, carry) ==
    IF Len(a) = 1 THEN <<a[1] + b[1] + carry>>
    ELSE LET s == a[1] + b[1] + carry
         IN  <<Limb(s)>> \o AddLimbs(Tail(a), Tail(b), Carry(s))

\* the distance between neighbouring doubles around q, in units of 2^-56
Ulp(q) ==
    IF q[5] >= 2 THEN 32
    ELSE IF q[5] >= 1 THEN 16
    ELSE IF q[4] >= 8192 THEN 8
    ELSE IF q[4] >= 4096 THEN 4
    ELSE IF q[4] >= 2048 THEN 2
    ELSE 1

\* the double nearest to q + f units, where rem says how the fraction f of a
\* unit compares with a half: "exact" (f = 0), "below", "half" or "above"
RoundToDouble(q, rem) ==
    LET ulp == Ulp(q)
        r == q[1] % ulp
        half == ulp \div 2
        cut == IF ulp = 1 THEN rem
               ELSE IF r < half THEN (IF r = 0 /\ rem = "exact" THEN "exact" ELSE "below")
               ELSE IF r > half THEN "above"
               ELSE IF rem = "exact" THEN "half" ELSE "above"
        down == [q EXCEPT ![1] = @ - r]
        up == AddLimbs(down, <<ulp, 0, 0, 0, 0>>, 0)
        odd == (q[1] \div ulp) % 2 = 1
    IN  CASE cut \in {"exact", "below"} -> down
          [] cut = "above" -> up
          [] OTHER -> IF odd THEN up ELSE down

\* a + b
FloatAdd(a, b) == RoundToDouble(AddLimbs(a, b, 0), "exact")

RECURSIVE ColumnSum(_, _, _, _)
ColumnSum(a, b, k, n) ==
    IF n > 5 THEN 0
    ELSE (IF k + 1 - n \in 1..5 THEN a[n] * b[k + 1 - n] ELSE 0) + ColumnSum(a, b, k, n + 1)

\* the exact product, in units of 2^-112
RECURSIVE MulLimbs(_, _, _, _)
MulLimbs(a, b, k, carry) ==
    IF k > 9 THEN <<carry>>
    ELSE LET s == ColumnSum(a, b, k, 1) + carry
         IN  <<Limb(s)>> \o MulLimbs(a, b, k + 1, Carry(s))

\* a * b
FloatMul(a, b) ==
    LET p == MulLimbs(a, b, 1, 0)
        low == SubSeq(p, 1, 4)
        rem == IF low = <<0, 0, 0, 0>> THEN "exact"
               ELSE IF low[4] < 8192 THEN "below"
               ELSE IF low = <<0, 0, 0, 8192>> THEN "half"
               ELSE "above"
    IN  RoundToDouble(SubSeq(p, 5, 9), rem)

RECURSIVE LessFrom(_, _, _)
LessFrom(a, b, k) ==
    IF k = 0 THEN FALSE
    ELSE IF a[k] # b[k] THEN a[k] < b[k]
    ELSE LessFrom(a, b, k - 1)

\* a < b
DoubleLess(a, b) == LessFrom(a, b, 5)

MathMin(a, b) == IF DoubleLess(b, a) THEN b ELSE a

\* a threshold as the caller wrote it (in thousandths) and the double it is
Threshold(milli, d) == [t |-> "number", milli |-> milli, d |-> d]

DEFAULT_CONFIDENCE_THRESHOLD == Threshold(700, d0_7)

\* rows of FIELD_SYNONYMS: the rows and variants of the names used below
FIELD_SYNONYMS ==
    <<[k |-> <<"p", "h", "o", "n", "e">>,
       v |-> <<<<"t", "e", "l", "e", "p", "h", "o", "n", "e">>, <<"t", "e", "l">>>>],
      [k |-> <<"f", "i", "r", "s", "t", "N", "a", "m", "e">>,
       v |-> <<<<"f", "i", "r", "s", "t", "_", "n", "a", "m", "e">>,
               <<"f", "i", "r", "s", "t", "n", "a", "m", "e">>>>],
      [k |-> <<"c", "o", "m", "p", "a", "n", "y", "N", "a", "m", "e">>,
       v |-> <<<<"c", "o", "m", "p", "a", "n", "y">>,
               <<"o", "r", "g", "_", "n", "a", "m", "e">>>>]>>

RECURSIVE RemoveBrackets(_)
RemoveBrackets(s) ==
    IF s = <<>> THEN <<>>
    ELSE IF Len(s) >= 2 /\ s[1] = "[" /\ s[2] = "]" THEN RemoveBrackets(SubSeq(s, 3, Len(s)))
    ELSE <<s[1]>> \o RemoveBrackets(Tail(s))

NormalizeName(name) ==
    RemoveBrackets(SelectSeq(ToLowerCase(name), LAMBDA c : c \notin {"-", "_"}))

StrIncludes(s, sub) ==
    \E k \in 0..(Len(s) - Len(sub)) : SubSeq(s, k + 1, k + Len(sub)) = sub

\* some row lists both names among its variants
SynonymHit(name1, name2) ==
    \E g \in 1..Len(FIELD_SYNONYMS) :
        LET normalizedSynonyms ==
                {NormalizeName(FIELD_SYNONYMS[g].v[n]) : n \in 1..Len(FIELD_SYNONYMS[g].v)}
        IN  name1 \in normalizedSynonyms /\ name2 \in normalizedSynonyms

CheckSynonyms(name1, name2) == IF SynonymHit(name1, name2) THEN d1_0 ELSE d0_0

TypeCompatibility(type1, type2) ==
    IF type1 = type2 THEN "same"
    ELSE IF {type1, type2} = {"number", "integer"} THEN "compatible"
    ELSE IF {type1, type2} = {"string", "null"} THEN "compatible"
    ELSE "none"

CalculateTypeCompatibility(type1, type2) ==
    CASE TypeCompatibility(type1, type2) = "same" -> d1_0
      [] TypeCompatibility(type1, type2) = "compatible" -> d0_7
      [] OTHER -> d0_0

CalculateFieldSimilarity(sourceName, targetName, srcSchema, tgtSchema) ==
    LET exact == IF sourceName = targetName THEN FloatAdd(d0_0, d0_5) ELSE d0_0
        caseless == IF ToLowerCase(sourceName) = ToLowerCase(targetName)
                    THEN FloatAdd(exact, d0_3) ELSE exact
        normalizedSource == NormalizeName(sourceName)
        normalizedTarget == NormalizeName(targetName)
        normalized == IF normalizedSource = normalizedTarget
                      THEN FloatAdd(caseless, d0_2) ELSE caseless
        synonym == FloatAdd(normalized,
                            FloatMul(CheckSynonyms(normalizedSource, normalizedTarget), d0_3))
        substring == IF \/ StrIncludes(normalizedSource, normalizedTarget)
                        \/ StrIncludes(normalizedTarget, normalizedSource)
                     THEN FloatAdd(synonym, d0_1) ELSE synonym
        typed == FloatAdd(substring,
                          FloatMul(CalculateTypeCompatibility(srcSchema.type, tgtSchema.type),
                                   d0_3))
    IN  MathMin(typed, d1_0)

SuggestTransformation(srcSchema, tgtSchema) ==
    IF srcSchema.type = tgtSchema.type THEN [type |-> "direct"]
    ELSE IF srcSchema.type = "string" /\ tgtSchema.type = "number"
    THEN [type |-> "format", from |-> "string", to |-> "number", function |-> "parseFloat"]
    ELSE IF srcSchema.type = "number" /\ tgtSchema.type = "string"
    THEN [type |-> "format", from |-> "number", to |-> "string", function |-> "toString"]
    ELSE IF srcSchema.format = Str(<<"d", "a", "t", "e">>)
            /\ tgtSchema.format = Str(<<"d", "a", "t", "e", "-", "t", "i", "m", "e">>)
    THEN [type |-> "format", from |-> "date", to |-> "date-time"]
    ELSE IF srcSchema.type = "array" /\ tgtSchema.type = "string"
    THEN [type |-> "join", separator |-> <<",", " ">>]
    ELSE IF srcSchema.type = "string" /\ tgtSchema.type = "array"
    THEN [type |-> "split", separator |-> <<",">>]
    ELSE Undefined

SchemaObject(type, format, properties, items) ==
    [t |-> "schema", type |-> type, format |-> format, properties |-> properties,
     items |-> items]

\* schema.properties: the declared properties in declaration order
Properties(entries) == [t |-> "properties", v |-> entries]

Field(path, schema) == [path |-> path, schema |-> schema]

RECURSIVE ExtractFields(_, _)
RECURSIVE ExtractProperties(_, _)
ExtractProperties(entries, prefix) ==
    IF entries = <<>> THEN <<>>
    ELSE LET key == entries[1].k
             prop == entries[1].v
             fieldPath == IF prefix # <<>> THEN prefix \o <<".">> \o key ELSE key
             below == IF prop.type \in {"object", "array"}
                      THEN ExtractFields(prop, fieldPath) ELSE <<>>
         IN  <<Field(fieldPath, prop)>> \o below \o ExtractProperties(Tail(entries), prefix)

ExtractFields(schema, prefix) ==
    IF schema.type = "object" /\ schema.properties # Undefined
    THEN ExtractProperties(schema.properties.v, prefix)
    ELSE IF schema.type = "array" /\ schema.items # Undefined
    THEN ExtractFields(schema.items,
                       IF prefix # <<>> THEN prefix \o <<"[", "]">> ELSE <<"[", "]">>)
    ELSE <<>>

\* suggestions.sort((a, b) => b.confidence - a.confidence); the sort is stable
InsertByConfidence(sorted, s) ==
    LET ahead == Cardinality({k \in 1..Len(sorted) :
                                ~DoubleLess(sorted[k].confidence, s.confidence)})
    IN  SubSeq(sorted, 1, ahead) \o <<s>> \o SubSeq(sorted, ahead + 1, Len(sorted))

RECURSIVE SortByConfidence(_, _)
SortByConfidence(sorted, rest) ==
    IF rest = <<>> THEN sorted
    ELSE SortByConfidence(InsertByConfidence(sorted, Head(rest)), Tail(rest))

\* the threshold in force: the parameter's default applies when it is omitted
ThresholdGiven ==
    IF confidenceThreshold = Undefined THEN DEFAULT_CONFIDENCE_THRESHOLD
    ELSE confidenceThreshold

SuggestFrame == UNCHANGED <<sourceSchema, targetSchema, confidenceThreshold, fieldPaths>>
                /\ UNCHANGED <<transformVars, storeVars>>

\* suggestMappings is called: both field lists are extracted
SuggestMappings ==
    /\ suggestPc = "idle"
    /\ sourceFields' = ExtractFields(sourceSchema, <<>>)
    /\ targetFields' = ExtractFields(targetSchema, <<>>)
    /\ suggestions' = <<>>
    /\ si' = 1
    /\ ti' = 1
    /\ suggestPc' = "scoring"
    /\ SuggestFrame

\* one iteration of the inner loop
ScorePair ==
    /\ suggestPc = "scoring"
    /\ si <= Len(sourceFields)
    /\ targetFields # <<>>
    /\ LET sourceField == sourceFields[si]
           targetField == targetFields[ti]
           confidence == CalculateFieldSimilarity(sourceField.path, targetField.path,
                                                  sourceField.schema, targetField.schema)
       IN  suggestions' =
              IF ~DoubleLess(confidence, ThresholdGiven.d)
              THEN Append(suggestions,
                          [confidence |-> confidence,
                           sourceField |-> sourceField.path,
                           targetField |-> targetField.path,
                           suggestedTransformation |->
                               SuggestTransformation(sourceField.schema, targetField.schema)])
              ELSE suggestions
    /\ IF ti < Len(targetFields)
       THEN ti' = ti + 1 /\ si' = si
       ELSE ti' = 1 /\ si' = si + 1
    /\ UNCHANGED <<sourceFields, targetFields, suggestPc>>
    /\ SuggestFrame

\* both loops are over: the suggestions are sorted and returned
SortSuggestions ==
    /\ suggestPc = "scoring"
    /\ si > Len(sourceFields) \/ targetFields = <<>>
    /\ suggestions' = SortByConfidence(<<>>, suggestions)
    /\ suggestPc' = "returned"
    /\ UNCHANGED <<sourceFields, targetFields, si, ti>>
    /\ SuggestFrame

\* SchemaService.getFieldPaths: the paths of a schema, flattened
RECURSIVE GetFieldPaths(_, _)
RECURSIVE PropertyPaths(_, _)
PropertyPaths(entries, prefix) ==
    IF entries = <<>> THEN <<>>
    ELSE LET key == entries[1].k
             prop == entries[1].v
             fieldPath == IF prefix # <<>> THEN prefix \o <<".">> \o key ELSE key
             below == IF prop.type \in {"object", "array"}
                      THEN GetFieldPaths(prop, fieldPath) ELSE <<>>
         IN  <<fieldPath>> \o below \o PropertyPaths(Tail(entries), prefix)

GetFieldPaths(schema, prefix) ==
    IF schema.type = "object" /\ schema.properties # Undefined
    THEN PropertyPaths(schema.properties.v, prefix)
    ELSE IF schema.type = "array" /\ schema.items # Undefined
    THEN LET arrayPath == IF prefix # <<>> THEN prefix \o <<"[", "]">> ELSE <<"[", "]">>
         IN  <<arrayPath>> \o GetFieldPaths(schema.items, arrayPath)
    ELSE <<>>

Paths(seq) == [t |-> "paths", v |-> seq]

\* getFieldPaths is called on the source schema
FieldPathsListed ==
    /\ suggestPc = "idle"
    /\ fieldPaths = Undefined
    /\ fieldPaths' = Paths(GetFieldPaths(sourceSchema, <<>>))
    /\ UNCHANGED <<sourceSchema, targetSchema, confidenceThreshold, sourceFields,
                   targetFields, suggestions, si, ti, suggestPc>>
    /\ UNCHANGED <<transformVars, storeVars>>

NextSuggest == SuggestMappings \/ ScorePair \/ SortSuggestions \/ FieldPathsListed

\* suggestMappings is not called
SuggestOff ==
    /\ sourceSchema = Undefined
    /\ targetSchema = Undefined
    /\ confidenceThreshold = Undefined
    /\ sourceFields = <<>>
    /\ targetFields = <<>>
    /\ suggestions = <<>>
    /\ si = 1
    /\ ti = 1
    /\ suggestPc = "off"
    /\ fieldPaths = Undefined

----------------------------------------------------------------------------
(* Initial states and specifications *)

Mapping(fms) == [fieldMappings |-> fms, validationRules |-> Undefined]

InitState(h, m, calls, at) ==
    /\ heap = h
    /\ heap0 = h
    /\ payload = Ref(1)
    /\ mapping = m
    /\ callsLeft = calls
    /\ pc = at
    /\ i = 1
    /\ errors = <<>>
    /\ warnings = <<>>
    /\ unmappedFields = <<>>
    /\ transformedPayload = Undefined
    /\ outcome = <<>>
    /\ result = Undefined
    /\ results = <<>>
    /\ validation = Undefined

InitWith(h, fms, calls) ==
    InitState(h, Mapping(fms), calls, "idle") /\ StoreOff /\ SuggestOff

\* one call of transformPayload on any payload and configuration of the menus
Init == \E h \in Payloads, fms \in SeqsUpTo(FieldMappings, MaxMappings) : InitWith(h, fms, 1)

Spec == Init /\ [][Next]_vars

\* Values to convert: every string over a small alphabet (a digit that is
\* also a boolean word, another digit, the decimal point, a letter, a sign,
\* a blank), a number, a boolean, null and an array
Alphabet == {"1", "5", ".", "a", "-", " "}

Strings == SeqsUpTo(Alphabet, MaxStrLen)

Split == Rule("split", Undefined, Undefined, Undefined, Undefined, Undefined)
Join == Rule("join", Undefined, Undefined, Undefined, Undefined, Undefined)
Lookup(table) == Rule("lookup", Undefined, Undefined, Undefined, table, Undefined)

ConversionRules ==
    {Format("string", "number"), Format("number", "string"), Format("string", "boolean"),
     Format("boolean", "string"), Split, Join, Lookup(Undefined),
     Lookup(Table(<<Prop(<<"1">>, Str(<<"a">>)), Prop(<<"5">>, Null)>>))}

ConversionPayloads ==
    {PayloadOf(Str(s), Undefined, <<>>) : s \in Strings}
    \cup {PayloadOf(v, Undefined, <<>>) : v \in {Num(425, 1), Bool(TRUE), Null}}
    \cup {PayloadOf(Ref(2), Undefined, <<ArrCell(<<Str(<<"1">>), Null, Num(5, 0)>>)>>)}

\* one call with a single correspondence a -> x carrying a conversion rule
InitFormat ==
    \E h \in ConversionPayloads, rule \in ConversionRules, r \in BOOLEAN :
        InitWith(h, <<FieldMapping(pA, pX, r, rule)>>, 1)

SpecFormat == InitFormat /\ [][Next]_vars

\* Correspondences without a rule over payloads holding an object: the
\* caller transforms the same payload object twice with the same
\* configuration
AliasMappings == {FieldMapping(s, t, FALSE, NoRule) : s \in {pA, pAY, pB}, t \in {pX, pXY, pZ}}

AliasPayloads ==
    {PayloadOf(Ref(2), Num(7, 0), <<EmptyObj>>),
     PayloadOf(Ref(2), Num(7, 0), <<ObjCell(<<Prop(kY, Num(2, 0))>>)>>)}

InitTwice ==
    \E h \in AliasPayloads, fms \in SeqsUpTo(AliasMappings, MaxAliasMappings) : InitWith(h, fms, 2)

SpecTwice == InitTwice /\ [][Next]_vars

\* Payloads to validate and configurations with validation rules: required
\* target paths that are present, null, absent, nested or unusable (empty);
\* patterns that match, do not match or do not compile; ranges on either side
PatternStarts1 == Str(<<"^", "1">>)
PatternEndsA == Str(<<"a", "$">>)
PatternUnclosed == Str(<<"(">>)

ValidatePayloads ==
    {PayloadOf(Undefined, Num(7, 0), <<>>), PayloadOf(Null, Num(7, 0), <<>>),
     PayloadOf(Num(1, 0), Num(7, 0), <<>>), PayloadOf(Str(<<"1", "a">>), Undefined, <<>>),
     PayloadOf(Ref(2), Num(7, 0), <<ObjCell(<<Prop(kY, Num(2, 0))>>)>>)}

ValidateFieldMappings ==
    {FieldMapping(pA, t, TRUE, NoRule) : t \in {pA, pB, pAY, pEmpty}}
    \cup {FieldMapping(pA, pA, FALSE, NoRule)}

ValidationRules ==
    {ValidationRule(f, "required", Undefined, Undefined) : f \in {pA, pAY, pEmpty}}
    \cup {ValidationRule(pA, "required", Undefined, Str(<<"a">>))}
    \cup {ValidationRule(pA, "format", Params(p, Undefined, Undefined), Undefined) :
            p \in {PatternStarts1, PatternEndsA, PatternUnclosed}}
    \cup {ValidationRule(pB, "range", Params(Undefined, Num(8, 0), Num(5, 0)), Undefined),
          ValidationRule(pB, "range", Params(Undefined, Undefined, Num(75, 1)), Undefined),
          ValidationRule(pA, "range", Params(Undefined, Num(2, 0), Undefined), Undefined),
          ValidationRule(pA, "custom", Undefined, Undefined)}

InitValidate ==
    \E h \in ValidatePayloads, fms \in SeqsUpTo(ValidateFieldMappings, MaxRequired),
       rules \in {Undefined} \cup {Arr(rs) : rs \in SeqsUpTo(ValidationRules, MaxRules)} :
        InitState(h, [fieldMappings |-> fms, validationRules |-> rules], 0, "validate")
        /\ StoreOff
        /\ SuggestOff

SpecValidate == InitValidate /\ [][NextValidate]_vars

\* the transformation engine is not called
TransformOff == InitState(<<EmptyObj>>, Mapping(<<>>), 0, "off")

InitRepository(overlap, ops) ==
    /\ TransformOff
    /\ SuggestOff
    /\ StorageLoaded
    /\ disk \in Disks
    /\ persisted = PersistedOn(disk)
    /\ maxInFlight = overlap
    /\ opsLeft = ops

\* the repository called by one caller that awaits each call
InitStore == InitRepository(1, MaxOps)

SpecStore == InitStore /\ [][NextStore]_vars

\* calls that overlap: a call is made while others are in flight
InitConcurrent == InitRepository(MaxSlots, MaxConcurrentOps)

SpecConcurrent == InitConcurrent /\ [][NextStore]_vars

\* overlapping calls of callers that also clear the cache
NextCleared == NextStore \/ ClearCache

InitCleared == InitRepository(MaxSlots, MaxClearedOps)

SpecCleared == InitCleared /\ [][NextCleared]_vars

\* field names of the schemas below
fName == <<"N", "a", "m", "e">>
fname == <<"n", "a", "m", "e">>
ftel == <<"t", "e", "l">>
ftelephone == <<"t", "e", "l", "e", "p", "h", "o", "n", "e">>
ffirst_name == <<"f", "i", "r", "s", "t", "_", "n", "a", "m", "e">>
ffirstname == <<"f", "i", "r", "s", "t", "n", "a", "m", "e">>
fage == <<"a", "g", "e">>
fuser == <<"u", "s", "e", "r">>
fitems == <<"i", "t", "e", "m", "s">>
fphone == <<"p", "h", "o", "n", "e">>
fcompanyName == <<"c", "o", "m", "p", "a", "n", "y", "N", "a", "m", "e">>
fcompany == <<"c", "o", "m", "p", "a", "n", "y">>
fuser_name == <<"u", "s", "e", "r", ".", "n", "a", "m", "e">>

Property(key, schema) == [k |-> key, v |-> schema]

Leaf(type) == SchemaObject(type, Undefined, Undefined, Undefined)

ObjectOf(entries) == SchemaObject("object", Undefined, Properties(entries), Undefined)

ArrayOf(items) == SchemaObject("array", Undefined, Undefined, items)

SourceSchemas ==
    {ObjectOf(<<Property(fName, Leaf("string")), Property(ftel, Leaf("string"))>>),
     ObjectOf(<<Property(ffirst_name, Leaf("string")), Property(fage, Leaf("integer"))>>),
     ObjectOf(<<Property(fuser, ObjectOf(<<Property(fname, Leaf("string"))>>)),
                Property(fitems, ArrayOf(ObjectOf(<<Property(fname, Leaf("string"))>>)))>>),
     ObjectOf(<<Property(fphone, Leaf("string")), Property(fcompanyName, Leaf("string"))>>),
     ObjectOf(<<Property(fuser_name, Leaf("string")),
                Property(fuser, ObjectOf(<<Property(fname, Leaf("string"))>>))>>),
     Leaf("string")}

TargetSchemas ==
    {ObjectOf(<<Property(fname, Leaf("string")), Property(ftelephone, Leaf("string"))>>),
     ObjectOf(<<Property(ftelephone, Leaf("string")), Property(fcompany, Leaf("string"))>>),
     ObjectOf(<<Property(ffirstname, Leaf("number")), Property(fage, Leaf("number"))>>),
     ArrayOf(ObjectOf(<<Property(fname, Leaf("string"))>>)),
     ObjectOf(<<>>)}

Thresholds ==
    {Undefined, Threshold(0, d0_0), Threshold(300, d0_3), Threshold(900, d0_9),
     Threshold(1000, d1_0)}

InitSuggest ==
    /\ TransformOff
    /\ StoreOff
    /\ sourceSchema \in SourceSchemas
    /\ targetSchema \in TargetSchemas
    /\ confidenceThreshold \in Thresholds
    /\ sourceFields = <<>>
    /\ targetFields = <<>>
    /\ suggestions = <<>>
    /\ si = 1
    /\ ti = 1
    /\ suggestPc = "idle"
    /\ fieldPaths = Undefined

SpecSuggest == InitSuggest /\ [][NextSuggest]_vars

----------------------------------------------------------------------------
(* Properties *)

Fms == mapping.fieldMappings

\* the loop is about to process correspondence i
Processing == pc = "loop" /\ i <= Len(Fms)

NonEmptyString(f) == f.t = "string" /\ Len(f.v) > 0

\* both field names are non-empty strings
WellFormed(fm) == NonEmptyString(fm.sourceField) /\ NonEmptyString(fm.targetField)

FailedExits == {"invalid", "missingRequired", "transformFailed", "caught"}

FailedOutcomes == SelectSeq(outcome, LAMBDA o : o.exit \in FailedExits)

\* the step processes correspondence i without touching any object and moves on
SkipsOver == heap' = heap /\ pc' = "loop" /\ i' = i + 1

(* C1: the result of transformPayload has success true exactly when no error
   was recorded, transformedPayload present exactly when success is true and
   errors present exactly when success is false; a run in which some
   correspondence failed returns no transformedPayload, even if other
   correspondences were written. *)
C1_ResultShape ==
    pc = "done" =>
        /\ result.success = (errors = <<>>)
        /\ (errors = <<>>) = (FailedOutcomes = <<>>)
        /\ (result.transformedPayload # Undefined) = result.success
        /\ (result.errors # Undefined) = ~result.success
        /\ result.errors # Undefined => result.errors.v = errors
        /\ FailedOutcomes # <<>> => result.transformedPayload = Undefined

C1_Witness ==
    /\ pc = "done"
    /\ ~result.success
    /\ \E k \in 1..Len(outcome) : outcome[k].exit = "written"
    /\ heap[transformedPayload.a].props # <<>>
    /\ result.transformedPayload = Undefined

(* C2: every correspondence of fieldMappings is processed, in declared
   order, whatever happened to the earlier ones; each failing correspondence
   (rejected, missing required value, transformation error, unusable path)
   adds exactly one entry to errors, in order, citing its source field, and
   the loop goes on with the next correspondence; the loop has no other way
   out than reaching the end of fieldMappings. *)
C2_EveryCorrespondenceProcessed ==
    /\ Len(outcome) = i - 1
    /\ \A k \in 1..Len(outcome) : outcome[k].k = k
    /\ Len(errors) = Len(FailedOutcomes)
    /\ \A j \in 1..Len(errors) :
          errors[j].field = OrUndefinedString(Fms[FailedOutcomes[j].k].sourceField)
    /\ pc = "done" => Len(outcome) = Len(Fms)

C2_Witness ==
    /\ pc = "done"
    /\ Len(outcome) = 2
    /\ outcome[1].exit \in {"missingRequired", "transformFailed"}
    /\ outcome[2].exit = "written"
    /\ Len(errors) = 1

\* sourceField or targetField is empty or undefined
Malformed(fm) ==
    \/ fm.sourceField \in {Undefined, Str(<<>>)}
    \/ fm.targetField \in {Undefined, Str(<<>>)}

(* C3: a correspondence whose sourceField or targetField is empty or
   undefined is rejected with exactly one recorded error, writes nothing,
   and the loop goes on with the next correspondence. *)
C3_MalformedRejected ==
    [][(Processing /\ Malformed(Fms[i])) =>
          /\ Len(errors') = Len(errors) + 1
          /\ SubSeq(errors', 1, Len(errors)) = errors
          /\ errors'[Len(errors')].field = OrUndefinedString(Fms[i].sourceField)
          /\ SkipsOver]_vars

C3_Witness ==
    /\ pc = "done"
    /\ Len(outcome) = 2
    /\ Malformed(Fms[1])
    /\ Fms[1].sourceField = Str(<<>>)
    /\ outcome[1].exit = "invalid"
    /\ outcome[2].exit = "written"

(* C4: for a correspondence with non-empty field names whose source path
   resolves to undefined or null and that is required, exactly one
   missing-required-field error is recorded and nothing is written; when the
   source path resolves to undefined and the correspondence is not required,
   no error is recorded and nothing is written; in both cases the loop goes
   on with the next correspondence. *)
C4_AbsentValuePolicy ==
    [][(Processing /\ WellFormed(Fms[i])) =>
          LET fm == Fms[i]
              value == GetNestedValue(heap, payload, fm.sourceField).v
          IN  /\ (fm.required /\ value \in {Undefined, Null}) =>
                    /\ errors' = Append(errors,
                                        TransformationError(fm.sourceField,
                                            <<"Required field is missing or null">>, Undefined))
                    /\ SkipsOver
              /\ (~fm.required /\ value = Undefined) =>
                    /\ errors' = errors
                    /\ SkipsOver]_vars

C4_Witness ==
    /\ pc = "done"
    /\ Len(outcome) = 2
    /\ GetOwn(heap0[1], kA) = Null
    /\ Fms[1].sourceField = pA /\ Fms[1].required /\ outcome[1].exit = "missingRequired"
    /\ ~Fms[2].required /\ outcome[2].exit = "skipped"
    /\ heap[transformedPayload.a].props = <<>>

\* the value the source path of fm resolves to in heap h
SourceValue(h, fm) == GetNestedValue(h, payload, fm.sourceField).v

\* the segments of a path
Parts(f) == SplitChar(f.v, ".")

IsPrefix(p, q) == Len(p) <= Len(q) /\ SubSeq(q, 1, Len(p)) = p

\* the same target path, or one a dot-prefix of the other
Overlap(fm1, fm2) ==
    \/ IsPrefix(Parts(fm1.targetField), Parts(fm2.targetField))
    \/ IsPrefix(Parts(fm2.targetField), Parts(fm1.targetField))

\* a correspondence without a rule whose source value is there to be written
Applies(fm) ==
    /\ WellFormed(fm)
    /\ fm.transformation = Undefined
    /\ SourceValue(heap0, fm) # Undefined
    /\ ~(fm.required /\ SourceValue(heap0, fm) = Null)

(* C5: last write wins.  When an earlier correspondence and the last one
   both have present source values and target overlapping paths (the same
   path, or one a dot-prefix of the other, in either order), both are
   applied without an error and, after the run, the value at the last
   correspondence's target path is its value. *)
C5_LastWriteWins ==
    pc = "done" =>
        \A j \in 1..(Len(Fms) - 1) :
            LET k == Len(Fms)
            IN  (Applies(Fms[j]) /\ Applies(Fms[k]) /\ Overlap(Fms[j], Fms[k])) =>
                    /\ outcome[j].exit = "written"
                    /\ outcome[k].exit = "written"
                    /\ GetNestedValue(heap, transformedPayload, Fms[k].targetField).v
                          = SourceValue(heap, Fms[k])

AllRequired == \A k \in 1..Len(Fms) : Fms[k].required

\* every source path is present with a non-null value in the payload as given
AllPresent ==
    \A k \in 1..Len(Fms) :
        /\ NonEmptyString(Fms[k].sourceField)
        /\ SourceValue(heap0, Fms[k]) \notin {Undefined, Null}

\* the transformation then succeeds and so does the validation, when made
RoundTripSucceeds ==
    pc = "done" =>
        /\ result.success
        /\ validation # Undefined => (validation.t = "validation" /\ validation.valid)

(* C6 as stated: for every configuration whose correspondences are all
   required and every payload in which every source path is present with a
   non-null value, transformPayload returns success=true and
   validateTransformedPayload on the returned payload returns valid=true. *)
C6_RoundTrip == (AllRequired /\ AllPresent) => RoundTripSucceeds

NoRuleFails ==
    \A k \in 1..Len(Fms) :
        \/ Fms[k].transformation = Undefined
        \/ ~ApplyTransformation(heap0, SourceValue(heap0, Fms[k]), Fms[k].transformation).threw

NoTargetProperPrefix ==
    \A j, k \in 1..Len(Fms) :
        (j # k /\ IsPrefix(Parts(Fms[j].targetField), Parts(Fms[k].targetField)))
            => Fms[j].targetField = Fms[k].targetField

(* C6 amended: the round trip holds when, in addition, every correspondence
   has non-empty field names, no transformation rule fails on its source
   value (a custom rule always does) and no target path is a proper
   dot-prefix of another target path. *)
C6_RoundTripAmended ==
    (/\ AllRequired
     /\ AllPresent
     /\ \A k \in 1..Len(Fms) : WellFormed(Fms[k])
     /\ NoRuleFails
     /\ NoTargetProperPrefix) => RoundTripSucceeds

C6_Witness ==
    /\ pc = "done"
    /\ Len(Fms) = 2
    /\ AllRequired /\ AllPresent /\ NoRuleFails /\ NoTargetProperPrefix
    /\ Fms[1].targetField # Fms[2].targetField
    /\ Fms[2].transformation # Undefined
    /\ validation # Undefined
    /\ validation.valid

(* C7: transformPayload is a pure function of payload and configuration:
   two calls in a row with the same payload and the same configuration
   return equal results. *)
C7_SameResultTwice == Len(results) = 2 => results[1] = results[2]

\* the whole string is a decimal literal (surrounding blanks allowed)
EntirelyNumeric(s) ==
    LET t == Trim(s)
        u == IF t # <<>> /\ Head(t) \in {"-", "+"} THEN Tail(t) ELSE t
        nI == DigitPrefixLen(u)
        rest == Drop(u, nI)
        nF == IF rest = <<>> THEN 0 ELSE DigitPrefixLen(Tail(rest))
    IN  /\ nI + nF > 0
        /\ rest # <<>> => (Head(rest) = "." /\ nF = Len(rest) - 1)

IsStringToNumber(fm) ==
    /\ fm.transformation # Undefined
    /\ fm.transformation.type = "format"
    /\ fm.transformation.from = "string"
    /\ fm.transformation.to = "number"

(* C8: the format rule string -> number yields a number only when the
   whole input string parses as a number; for every input string that is
   not entirely numeric the correspondence fails with exactly one error
   citing its source field, nothing is written to its target, and success is
   false. *)
C8_NumberParseMustFullySucceed ==
    pc = "done" =>
        \A k \in 1..Len(Fms) :
            (/\ WellFormed(Fms[k])
             /\ IsStringToNumber(Fms[k])
             /\ SourceValue(heap0, Fms[k]).t = "string"
             /\ ~EntirelyNumeric(SourceValue(heap0, Fms[k]).v)) =>
                /\ outcome[k].exit = "transformFailed"
                /\ Len(errors) = 1
                /\ errors[1].field = Fms[k].sourceField
                /\ heap[transformedPayload.a].props = <<>>
                /\ ~result.success

IsCustom(fm) == fm.transformation # Undefined /\ fm.transformation.type = "custom"

\* the value reaches the transformation step: it is not undefined, and not a
\* null that the required check takes for missing
ReachesRule(fm, value) == value # Undefined /\ ~(fm.required /\ value = Null)

(* C9: a correspondence (with non-empty field names) carrying a custom rule
   never produces an output value: whenever its source value is present, one
   error is recorded for it, citing its source field and carrying the
   original value, nothing is written, and the call returns success=false
   without an output object. *)
C9_CustomNeverProduces ==
    /\ [][(Processing /\ WellFormed(Fms[i]) /\ IsCustom(Fms[i])
              /\ ReachesRule(Fms[i], SourceValue(heap, Fms[i]))) =>
             /\ Len(errors') = Len(errors) + 1
             /\ SubSeq(errors', 1, Len(errors)) = errors
             /\ errors'[Len(errors')].field = Fms[i].sourceField
             /\ errors'[Len(errors')].originalValue = SourceValue(heap, Fms[i])
             /\ SkipsOver]_vars
    /\ [](pc = "done" =>
            \A k \in 1..Len(Fms) :
                (WellFormed(Fms[k]) /\ IsCustom(Fms[k])
                    /\ ReachesRule(Fms[k], SourceValue(heap0, Fms[k]))) =>
                        /\ outcome[k].exit = "transformFailed"
                        /\ ~result.success
                        /\ result.transformedPayload = Undefined)

C9_Witness ==
    /\ pc = "done"
    /\ Len(Fms) = 2
    /\ IsCustom(Fms[2])
    /\ Fms[2].transformation.function # Undefined
    /\ outcome[1].exit = "written"
    /\ outcome[2].exit = "transformFailed"
    /\ errors[1].originalValue = Num(1, 0)
    /\ ~result.success

TopLevelKeys == {heap0[1].props[k].k : k \in 1..Len(heap0[1].props)}

ExpectedUnmapped ==
    {key \in TopLevelKeys : \A m \in 1..Len(Fms) : Fms[m].sourceField # Str(key)}

(* C10: unmappedFields is exactly the set of top-level keys of the input
   payload that are not equal to the sourceField of any correspondence
   (nested keys are not examined, and a nested sourceField does not map its
   top-level key); unmapped fields produce one warning and change neither
   success nor errors. *)
C10_UnmappedTopLevel ==
    pc = "done" =>
        /\ SeqRange(unmappedFields) = ExpectedUnmapped
        /\ Len(unmappedFields) = Cardinality(ExpectedUnmapped)
        /\ result.unmappedFields
              = (IF ExpectedUnmapped = {} THEN Undefined ELSE Arr(unmappedFields))
        /\ (result.warnings # Undefined) = (ExpectedUnmapped # {})
        /\ Len(warnings) <= 1
        /\ result.success = (FailedOutcomes = <<>>)
        /\ Len(errors) = Len(FailedOutcomes)

C10_Witness ==
    /\ pc = "done"
    /\ result.success
    /\ unmappedFields = <<kA>>
    /\ \E m \in 1..Len(Fms) : Fms[m].sourceField = pAY /\ outcome[m].exit = "written"
    /\ result.warnings # Undefined

(* C11: validateTransformedPayload returns {valid, errors} for any payload
   and configuration: errors holds one entry per violated check (a required
   target path missing or null, a required rule, a format rule, a range
   minimum, a range maximum), valid is true exactly when errors is empty, and
   a check on an unusable field path (its value counts as missing) or an
   earlier violation does not keep the later checks from being evaluated:
   the call never throws. *)
ValueAt(path) ==
    IF Falsy(path) THEN Undefined ELSE GetWalk(heap, payload, SplitChar(path.v, "."))

DeclaredRules == IF mapping.validationRules = Undefined THEN <<>> ELSE mapping.validationRules.v

RECURSIVE SumOver(_, _)
SumOver(f, n) == IF n = 0 THEN 0 ELSE f[n] + SumOver(f, n - 1)

ViolatedChecks ==
    LET req == RequiredTargets(mapping.fieldMappings)
        reqCount == [k \in 1..Len(req) |-> IF IsNullish(ValueAt(req[k])) THEN 1 ELSE 0]
        ruleCount == [k \in 1..Len(DeclaredRules) |->
                        Len(CheckRule(heap, DeclaredRules[k], ValueAt(DeclaredRules[k].field)).errors)]
    IN  SumOver(reqCount, Len(req)) + SumOver(ruleCount, Len(DeclaredRules))

C11_AccumulatesEveryCheck ==
    pc = "validated" =>
        /\ validation.t = "validation"
        /\ validation.valid <=> (Len(validation.errors) = 0)
        /\ Len(validation.errors) = ViolatedChecks

----------------------------------------------------------------------------
(* Properties of the mapping repository *)

\* the value stored under a key, Undefined when there is none
StoredAt(h, mappings, k) == IF IsRef(mappings) THEN GetOwn(h[mappings.a], k) ELSE Undefined

Stored(k) == StoredAt(stores, storage, k)

\* a call has just returned or thrown
Finished == nDone' = nDone + 1

(* C12: for any sequence of saves of configurations with the same id, the
   createdAt stored under that id after every save is the createdAt the
   first save of that id assigned, whatever createdAt the later inputs
   carry, and updatedAt is the time of the latest save. *)
SaveStep(p) == procs[p].pc = "loaded" /\ procs[p].op = "saveMapping" /\ procs'[p].pc # "loaded"

C12_CreatedAtSetOnce ==
    /\ [](\A k \in Keys :
            (firstCreatedAt[k] # None /\ Stored(k).t = "config")
                => Stored(k).createdAt = firstCreatedAt[k])
    /\ [][\A p \in Slots :
            (SaveStep(p) /\ lastSave' # lastSave)
                => StoredAt(stores', storage', KeyOf(procs[p].arg.id)).updatedAt = Time(now)]_vars

(* C13: every configuration that saveMapping has put in the store has a
   non-empty string id and name, a sourceEndpoint and a targetEndpoint, and
   a fieldMappings sequence in which every entry has a non-empty sourceField
   and targetField (a configuration failing this is rejected and the store
   left unchanged). *)
PopulatedEntry(fm) == ~IsNullish(fm) /\ ~Falsy(fm.sourceField) /\ ~Falsy(fm.targetField)

StructurallyValid(c) ==
    /\ c.t = "config"
    /\ c.id.t = "string" /\ c.id.v # <<>>
    /\ c.name.t = "string" /\ c.name.v # <<>>
    /\ ~IsNullish(c.sourceEndpoint)
    /\ ~IsNullish(c.targetEndpoint)
    /\ c.fieldMappings.t = "array"
    /\ \A j \in 1..Len(c.fieldMappings.v) : PopulatedEntry(c.fieldMappings.v[j])

C13_StoreInvariant ==
    \A k \in Keys : (lastSave[k] # None /\ Stored(k) # Undefined) => StructurallyValid(Stored(k))

(* C14: after saveMapping(cfg), getMapping(cfg.id) returns a fieldMappings
   sequence of the same length and order as the input, in which each entry's
   sourceField, targetField, sourceType and targetType is the value the
   input entry supplied under the camelCase key or under the snake_case key
   (absent when it supplied neither), and required is false when the input
   omitted it. *)
Supplied(camel, snake) ==
    IF {camel, snake} \subseteq {Undefined, Null} THEN {Undefined, Null}
    ELSE {camel, snake} \ {Undefined, Null}

AgreesWithInput(got, given) ==
    /\ got.sourceField \in Supplied(given.sourceField, given.source_field)
    /\ got.targetField \in Supplied(given.targetField, given.target_field)
    /\ got.sourceType \in Supplied(given.sourceType, given.source_type)
    /\ got.targetType \in Supplied(given.targetType, given.target_type)
    /\ IsNullish(given.required) => got.required = Bool(FALSE)

ReflectsSaved(got, given) ==
    /\ got.t = "config"
    /\ got.id = given.id
    /\ given.fieldMappings.t = "array" =>
        /\ got.fieldMappings.t = "array"
        /\ Len(got.fieldMappings.v) = Len(given.fieldMappings.v)
        /\ \A j \in 1..Len(given.fieldMappings.v) :
              AgreesWithInput(got.fieldMappings.v[j], given.fieldMappings.v[j])

GetReturns(k) == Finished /\ last'.op = "getMapping" /\ last'.arg.v = k

C14_SavedCorrespondencesCanonical ==
    [][\A k \in Keys :
        (GetReturns(k) /\ lastSave[k] # None) => ReflectsSaved(last'.ret, lastSave[k])]_vars

C14_Witness ==
    /\ last # None /\ last.op = "getMapping" /\ last.ret.t = "config"
    /\ lastSave[last.arg.v] # None
    /\ lastSave[last.arg.v].fieldMappings = Arr(<<fmSnake, fmCamel>>)
    /\ last.ret.fieldMappings.v[1].sourceField = pB
    /\ last.ret.fieldMappings.v[2].sourceField = pA

(* C15: every correspondence of every configuration that a read returns is
   in canonical camelCase form (no snake_case key) with sourceField and
   targetField populated, also when the configuration came from the initial
   load of a persisted image or from importMappings. *)
CanonicalEntry(fm) ==
    /\ PopulatedEntry(fm)
    /\ fm.source_field = Undefined /\ fm.target_field = Undefined
    /\ fm.source_type = Undefined /\ fm.target_type = Undefined

Canonical(c) ==
    (c.t = "config" /\ c.fieldMappings.t = "array")
        => \A j \in 1..Len(c.fieldMappings.v) : CanonicalEntry(c.fieldMappings.v[j])

C15_ReadsReturnCanonical ==
    (last # None /\ last.op = "getMapping" /\ lastSave[last.arg.v] = None) => Canonical(last.ret)

(* C16: if the durable write fails during saveMapping, for any failure
   cause, saveMapping still completes without raising, and every later
   getMapping and listMappings reflects the configurations saved; this keeps
   holding for every further save, get and list after the failure. *)
ListReturns == Finished /\ last'.op = "listMappings"

SaveReturns == Finished /\ last'.op = "saveMapping"

C16_WriteFailureStaysInMemory ==
    [][/\ (SaveReturns /\ last'.wrote \notin {"none", "ok"}) => last'.ret.t # "thrown"
       /\ (SaveReturns /\ saveWriteFailed /\ last'.ret.t = "thrown") => last'.ret.cause = "input"
       /\ \A k \in Keys :
            (GetReturns(k) /\ saveWriteFailed /\ lastSave[k] # None)
                => ReflectsSaved(last'.ret, lastSave[k])
       /\ (ListReturns /\ saveWriteFailed) =>
            /\ last'.ret.t = "array"
            /\ \A k \in Keys : lastSave[k] # None =>
                  \E j \in 1..Len(last'.ret.v) : last'.ret.v[j].id = lastSave[k].id]_vars

C16_Witness ==
    /\ saveWriteFailed
    /\ fileSystemWritable
    /\ last # None /\ last.op = "getMapping" /\ last.ret.t = "config"
    /\ lastSave[last.arg.v] # None
    /\ disk \in {Missing, Unreadable}

(* C17: whatever the storage file holds and however reading it fails
   (missing, unreadable, not JSON, or JSON that is not an object of
   configurations, such as null), no getMapping, listMappings, saveMapping
   or deleteMapping fails because of the stored document. *)
C17_StoredDocumentNeverFailsCalls ==
    (last # None /\ last.op \in {"getMapping", "listMappings", "saveMapping", "deleteMapping"}
        /\ last.ret.t = "thrown") => last.ret.cause # "storage"

(* C18: importMappings over a collection of n entries, with a usable store:
   imported plus the number of errors is n; every structurally valid entry
   is in the store afterwards with normalized correspondences; no
   structurally invalid entry enters the store; entries of the store not
   named in the collection are unchanged; when the input cannot be parsed,
   imported is 0 and the store is unchanged. *)
ImportStep(p) ==
    procs[p].pc = "loaded" /\ procs[p].op = "importMappings" /\ procs'[p].pc # "loaded"

ImportReturn(p) == IF procs'[p].pc = "writing" THEN procs'[p].ret ELSE last'.ret

ValidEntry(c) ==
    /\ ~IsNullish(c)
    /\ c.fieldMappings.t = "array"
    /\ \A j \in 1..Len(c.fieldMappings.v) : ~IsNullish(c.fieldMappings.v[j])
    /\ StructurallyValid([c EXCEPT !.fieldMappings = NormalizeFieldMappings(@).v])

ImportedAsClaimed(p) ==
    LET text == procs[p].arg
        r == ImportReturn(p)
        entries == text.doc.props
    IN  IF ~ImportParses(text)
        THEN r.imported = 0 /\ \A k \in Keys : StoredAt(stores', storage', k) = Stored(k)
        ELSE /\ r.imported + Len(r.errors) = Len(entries)
             /\ \A j \in 1..Len(entries) :
                  IF ValidEntry(entries[j].v)
                  THEN /\ StructurallyValid(StoredAt(stores', storage', entries[j].k))
                       /\ Canonical(StoredAt(stores', storage', entries[j].k))
                  ELSE StoredAt(stores', storage', entries[j].k) = Stored(entries[j].k)
             /\ \A k \in Keys \ {entries[j].k : j \in 1..Len(entries)} :
                  StoredAt(stores', storage', k) = Stored(k)

C18_ImportNeverAborts ==
    [][\A p \in Slots : (ImportStep(p) /\ IsRef(storage)) => ImportedAsClaimed(p)]_vars

(* C19: the durable store is read at most once, by the first call that
   loads the store; no later call, including one that arrives while that
   read is still in flight, starts a second read. *)
C19_ReadAtMostOnce ==
    /\ reads <= 1
    /\ reads = 0 => \A p \in Slots : procs[p].pc = "idle" \/ ~procs[p].parsed
    /\ reads = 0 <=> ~initialized

C19_Witness ==
    /\ reads = 1
    /\ \E p, q \in Slots : procs[p].pc = "reading" /\ procs[q].pc = "loaded" /\ procs[q].parsed

----------------------------------------------------------------------------
(* Properties of field matching *)

\* the score of a pair as the sum calculateFieldSimilarity writes, taken
\* exactly, in thousandths
ScoreMilli(sourceField, targetField) ==
    LET normalizedSource == NormalizeName(sourceField.path)
        normalizedTarget == NormalizeName(targetField.path)
        compat == TypeCompatibility(sourceField.schema.type, targetField.schema.type)
        sum == (IF sourceField.path = targetField.path THEN 500 ELSE 0)
               + (IF ToLowerCase(sourceField.path) = ToLowerCase(targetField.path)
                  THEN 300 ELSE 0)
               + (IF normalizedSource = normalizedTarget THEN 200 ELSE 0)
               + (IF SynonymHit(normalizedSource, normalizedTarget) THEN 300 ELSE 0)
               + (IF \/ StrIncludes(normalizedSource, normalizedTarget)
                     \/ StrIncludes(normalizedTarget, normalizedSource)
                  THEN 100 ELSE 0)
               + (CASE compat = "same" -> 300 [] compat = "compatible" -> 210 [] OTHER -> 0)
    IN  IF sum > 1000 THEN 1000 ELSE sum

PathsOf(fields) == [k \in 1..Len(fields) |-> fields[k].path]

NoPathTwice(paths) == \A k, n \in 1..Len(paths) : paths[k] = paths[n] => k = n

Suggested(sourceField, targetField) ==
    {k \in 1..Len(suggestions) :
        /\ suggestions[k].sourceField = sourceField.path
        /\ suggestions[k].targetField = targetField.path}

ConfidenceInUnitInterval ==
    \A k \in 1..Len(suggestions) :
        /\ ~DoubleLess(suggestions[k].confidence, d0_0)
        /\ ~DoubleLess(d1_0, suggestions[k].confidence)

ConfidenceNeverIncreases ==
    \A k \in 1..(Len(suggestions) - 1) :
        ~DoubleLess(suggestions[k].confidence, suggestions[k + 1].confidence)

(* C20: suggestMappings returns exactly the pairs of a source path and a
   target path whose similarity score is at least the threshold, every such
   pair once and no pair below the threshold, each with a confidence in
   [0, 1], in an order in which the confidence never increases. *)
C20_SuggestsPairsAtOrAboveThreshold ==
    suggestPc = "returned" =>
        /\ \A s \in 1..Len(sourceFields), g \in 1..Len(targetFields) :
              Cardinality(Suggested(sourceFields[s], targetFields[g]))
                  = (IF ScoreMilli(sourceFields[s], targetFields[g]) >= ThresholdGiven.milli
                     THEN 1 ELSE 0)
        /\ ConfidenceInUnitInterval
        /\ ConfidenceNeverIncreases

\* the same with the score as calculateFieldSimilarity computes it in
\* doubles, compared with the double of the threshold
SuggestsPairsByComputedScore ==
    (suggestPc = "returned" /\ NoPathTwice(PathsOf(sourceFields))
        /\ NoPathTwice(PathsOf(targetFields))) =>
        /\ \A s \in 1..Len(sourceFields), g \in 1..Len(targetFields) :
              Cardinality(Suggested(sourceFields[s], targetFields[g]))
                  = (IF DoubleLess(CalculateFieldSimilarity(
                                       sourceFields[s].path, targetFields[g].path,
                                       sourceFields[s].schema, targetFields[g].schema),
                                   ThresholdGiven.d)
                     THEN 0 ELSE 1)
        /\ ConfidenceInUnitInterval
        /\ ConfidenceNeverIncreases

\* the variants of a row together with its canonical name, normalized
SynonymGroup(g) ==
    {NormalizeName(FIELD_SYNONYMS[g].k)}
        \cup {NormalizeName(FIELD_SYNONYMS[g].v[n]) : n \in 1..Len(FIELD_SYNONYMS[g].v)}

SameSynonymGroup(name1, name2) ==
    \E g \in 1..Len(FIELD_SYNONYMS) : name1 \in SynonymGroup(g) /\ name2 \in SynonymGroup(g)

(* C21: two field names receive the synonym bonus whenever their normalized
   forms belong to the same synonym group, a group being its canonical name
   together with its listed variants; phone / telephone and companyName /
   company are such pairs, and with equal types they are suggested at the
   default threshold. *)
C21_SynonymGroupBonus ==
    suggestPc = "returned" =>
        \A s \in 1..Len(sourceFields), g \in 1..Len(targetFields) :
            LET name1 == NormalizeName(sourceFields[s].path)
                name2 == NormalizeName(targetFields[g].path)
            IN  SameSynonymGroup(name1, name2) =>
                    /\ CheckSynonyms(name1, name2) = d1_0
                    /\ (/\ confidenceThreshold = Undefined
                        /\ sourceFields[s].schema.type = targetFields[g].schema.type
                        /\ StrIncludes(name1, name2) \/ StrIncludes(name2, name1))
                         => Suggested(sourceFields[s], targetFields[g]) # {}

(* C22: the sequence of paths that suggestMappings scores (extractFields,
   which is to emit one entry for the items node of every array node at
   <prefix>[]) equals the sequence getFieldPaths returns for the same schema
   tree. *)
C22_ExtractFieldsAgreesWithGetFieldPaths ==
    (suggestPc \in {"scoring", "returned"} /\ fieldPaths # Undefined)
        => PathsOf(sourceFields) = fieldPaths.v

(* C23: for a schema tree without shared sub-nodes, field-path extraction
   returns no path twice and returns the same sequence each time it is run
   on the tree. *)
C23_NoPathTwice ==
    /\ suggestPc \in {"scoring", "returned"} =>
          /\ NoPathTwice(PathsOf(sourceFields))
          /\ NoPathTwice(PathsOf(targetFields))
          /\ sourceFields = ExtractFields(sourceSchema, <<>>)
    /\ fieldPaths # Undefined =>
          /\ NoPathTwice(fieldPaths.v)
          /\ fieldPaths.v = GetFieldPaths(sourceSchema, <<>>)

\* the same for trees whose property names hold neither "." nor "[]"
RECURSIVE PlainKeys(_)
PlainKeys(schema) ==
    /\ schema.properties # Undefined =>
          \A k \in 1..Len(schema.properties.v) :
              /\ ~StrIncludes(schema.properties.v[k].k, <<".">>)
              /\ ~StrIncludes(schema.properties.v[k].k, <<"[", "]">>)
              /\ PlainKeys(schema.properties.v[k].v)
    /\ schema.items # Undefined => PlainKeys(schema.items)

NoPathTwiceWithPlainKeys ==
    (PlainKeys(sourceSchema) /\ PlainKeys(targetSchema)) => C23_NoPathTwice

(* C24: no update is lost around initialization.  When a saveMapping was
   issued while the initial load started by another call was in flight,
   then once the calls have finished the saved configuration is in the
   in-memory store together with every configuration of the persisted
   image, and the storage file still holds the configurations it held
   (those that no deleteMapping removed). *)
Quiescent == \A p \in Slots : procs[p].pc = "idle"

OnDisk(k) == PersistedOn(disk)[k]

C24_NoUpdateLostAroundInitialization ==
    (Quiescent /\ initialized /\ IsRef(storage)) =>
        \A k \in Keys :
            /\ lastSave[k] # None => Stored(k).t = "config"
            /\ persisted[k] => (Stored(k) # Undefined /\ OnDisk(k))

(* C25: once initialization has completed, overlapping saveMapping and
   deleteMapping calls on distinct ids lose no update in memory.  Stepwise:
   in every step taken after the initial load has finished, a saveMapping
   that does not throw leaves its id stored, a deleteMapping leaves its id
   absent, and every id that no call of the step saves, deletes or imports
   is stored exactly as before; so when all calls have returned the store
   holds every saved id and none of the deleted ones. *)
InitializationCompleted ==
    initialized /\ IsRef(storage) /\ \A p \in Slots : procs[p].pc # "reading"

Acted(p) == procs[p].pc = "loaded" /\ procs'[p].pc # "loaded"

Threw(p) == procs'[p].pc = "idle" /\ last'.ret.t = "thrown"

Saves(p, k) == procs[p].op = "saveMapping" /\ KeyOf(procs[p].arg.id) = k

Deletes(p, k) == procs[p].op = "deleteMapping" /\ procs[p].arg.v = k

C25_NoUpdateLostInMemory ==
    [][InitializationCompleted =>
          \A k \in Keys :
              /\ \A p \in Slots :
                    /\ (Acted(p) /\ Saves(p, k) /\ ~Threw(p)) => Stored(k)'.t = "config"
                    /\ (Acted(p) /\ Deletes(p, k)) => Stored(k)' = Undefined
              /\ (\A p \in Slots : Acted(p) => ~(Saves(p, k) \/ Deletes(p, k)
                                                 \/ procs[p].op = "importMappings"))
                    => Stored(k)' = Stored(k)]_vars

\* a saveMapping and a deleteMapping of another id overlap after the load:
\* both have changed the store and are writing
C25_Witness ==
    /\ InitializationCompleted
    /\ reads = 1
    /\ stores[1] = EmptyObj
    /\ \E p, q \in Slots :
          /\ procs[p].pc = "writing" /\ procs[p].op = "saveMapping"
          /\ procs[q].pc = "writing" /\ procs[q].op = "deleteMapping"
          /\ KeyOf(procs[p].arg.id) # procs[q].arg.v
          /\ Stored(KeyOf(procs[p].arg.id)).t = "config"
          /\ PersistedOn(disk)[procs[q].arg.v]
          /\ Stored(procs[q].arg.v) = Undefined

(* C26: when every durable write has succeeded and the calls have all
   returned (no write in flight), the storage file holds the in-memory
   store; a write started earlier, with an older snapshot, is never the
   final content of the file.  Checked for calls none of which changed the
   store while the initial load was running. *)
C26_DurableImageEqualsStore ==
    (Quiescent /\ InitializationCompleted /\ stores[1] = EmptyObj
      /\ writes > 0 /\ writeFailures = {})
        => disk = File(JsonStringify(stores, storage))

(* C27: transformPayload does not modify its inputs.  When a call has
   returned, the source payload is, at every depth, the value tree it was
   before the call, also when a correspondence without a rule has copied an
   object value to a target path and a later correspondence writes below
   that target. *)
C27_PayloadUnchanged ==
    pc = "done" =>
        Materialize(heap, payload, MaxDepth) = Materialize(heap0, payload, MaxDepth)

(* C28: every configuration is stored under a key equal to its own id:
   after any sequence of saveMapping, importMappings and deleteMapping
   calls, a stored configuration has the id it is stored under, getMapping(k)
   returns null or a configuration whose id is k, and listMappings reports
   no id twice. *)
ReportsNoIdTwice(listed) ==
    \A j, k \in 1..Len(listed) : listed[j].id = listed[k].id => j = k

C28_StoredUnderOwnId ==
    /\ IsRef(storage) =>
          \A k \in Keys : Stored(k) # Undefined /\ Stored(k).t = "config"
                             => Stored(k).id = Str(k)
    /\ (last # None /\ last.op = "getMapping" /\ last.ret.t = "config")
          => last.ret.id = last.arg
    /\ (last # None /\ last.op = "listMappings" /\ last.ret.t = "array")
          => ReportsNoIdTwice(last.ret.v)

(* C29: degradation is monotone.  Once a write has failed with a read-only
   error, no later saveMapping, deleteMapping or importMappings starts a
   durable write, not even after clearCache; after write failures of other
   kinds only, every later call that gets as far as saveMappings still
   starts the write. *)
SkipsWrite(p) == Acted(p) /\ procs'[p].pc = "idle" /\ last'.wrote = "skipped"

C29_DegradationMonotone ==
    [][/\ "EROFS" \in writeFailures => writes' = writes
       /\ (writeFailures # {} /\ "EROFS" \notin writeFailures)
             => \A p \in Slots : ~SkipsWrite(p)]_vars

\* after a read-only failure and a clearCache (the file has been read a
\* second time) a saveMapping has returned without a write
C29_Witness ==
    /\ "EROFS" \in writeFailures
    /\ reads = 2
    /\ last # None /\ last.op = "saveMapping" /\ last.wrote = "skipped"
    /\ ~fileSystemWritable

(* C30: saving loses no information of a correspondence.  What getMapping
   returns for an id after saveMapping of a configuration with that id
   agrees with the correspondences given, attribute by attribute: paths,
   types, transformation rule, required and description.  Stated for the
   correspondences given with camelCase names; an absent optional attribute
   agrees with null, and required agrees when it is as true or as false. *)
AgreeOptional(stored, given) == stored = given \/ (IsNullish(stored) /\ IsNullish(given))

AgreeExceptDescription(stored, given) ==
    /\ stored.sourceField = given.sourceField
    /\ stored.targetField = given.targetField
    /\ IsNullish(given.sourceType) \/ stored.sourceType = given.sourceType
    /\ IsNullish(given.targetType) \/ stored.targetType = given.targetType
    /\ AgreeOptional(stored.transformation, given.transformation)
    /\ (stored.required = Bool(TRUE)) = (given.required = Bool(TRUE))

GivenInCamelCase(fm) ==
    ~IsNullish(fm) /\ ~IsNullish(fm.sourceField) /\ ~IsNullish(fm.targetField)

\* getMapping returns the configuration of id k, saved before
ReturnsSaved(k) ==
    /\ GetReturns(k) /\ last'.ret.t = "config"
    /\ lastSave[k] # None
    /\ lastSave[k].fieldMappings.t = "array"
    /\ last'.ret.fieldMappings.t = "array"
    /\ Len(last'.ret.fieldMappings.v) = Len(lastSave[k].fieldMappings.v)

C30_SavingLosesNoInformation ==
    [][\A k \in Keys :
        ReturnsSaved(k) =>
            LET given == lastSave[k].fieldMappings.v
                stored == last'.ret.fieldMappings.v
            IN  \A j \in 1..Len(given) :
                    GivenInCamelCase(given[j]) =>
                        /\ AgreeExceptDescription(stored[j], given[j])
                        /\ AgreeOptional(stored[j].description, given[j].description)]_vars

\* the same without the description
SavingKeepsAllButDescription ==
    [][\A k \in Keys :
        ReturnsSaved(k) =>
            LET given == lastSave[k].fieldMappings.v
                stored == last'.ret.fieldMappings.v
            IN  \A j \in 1..Len(given) :
                    GivenInCamelCase(given[j]) => AgreeExceptDescription(stored[j], given[j])]_vars

====
